---------------------------- MODULE Spec2Model ----------------------------
(***************************************************************************)
(* Model of the backtest simulator of src/src/backtest.py; the DSL parser, *)
(* the indicators, the strategy evaluator, the DSL generator and the       *)
(* pipeline that joins them follow in sections of their own, each with     *)
(* its specification over the same variables.                              *)
(*                                                                         *)
(* BacktestSimulator.run is a loop over the rows of the bar table `df`;    *)
(* one action models the column checks before the loop (run_start), one    *)
(* models a whole loop iteration (run_row), one models everything after    *)
(* the loop: forced close and _calculate_metrics (run_finish).             *)
(*                                                                         *)
(* Numbers: prices and metrics are Python/numpy floats in the source.      *)
(* They are modelled as exact rationals <<n, d>> in lowest terms (d > 0);  *)
(* binary64 rounding is not modelled.  Prices are positive, so that no     *)
(* return divides by zero.  The index of the bar table is the ascending    *)
(* sequence of day ordinals 1..Len(df); the signal table is indexed by     *)
(* the day ordinals 1..signals.len and may miss either column.             *)
(***************************************************************************)
EXTENDS Integers, Sequences, FiniteSets, TLC

(* ---------------------------- bounds ---------------------------------- *)
MaxRows == 3
MaxPrice == 2
MaxTrades == 3
MaxTradePrice == 2

(* ------------------------ exact rationals ----------------------------- *)
Abs(x) == IF x < 0 THEN -x ELSE x

RECURSIVE GCD(_, _)
GCD(a, b) == IF b = 0 THEN a ELSE GCD(b, a % b)

Rat(n, d) ==
    LET s == IF d < 0 THEN -1 ELSE 1
        g == GCD(Abs(n), Abs(d))
    IN  <<(s * n) \div g, (s * d) \div g>>

R(n) == <<n, 1>>
Zero == R(0)

RAdd(x, y) ==
    LET g == GCD(x[2], y[2])
    IN  Rat(x[1] * (y[2] \div g) + y[1] * (x[2] \div g), (x[2] \div g) * y[2])
RNeg(x) == <<-x[1], x[2]>>
RSub(x, y) == RAdd(x, RNeg(y))
RMul(x, y) ==
    LET a == Rat(x[1], y[2])
        b == Rat(y[1], x[2])
    IN  Rat(a[1] * b[1], a[2] * b[2])
RDiv(x, y) == RMul(x, Rat(y[2], y[1]))
RLt(x, y) ==
    LET g == GCD(x[2], y[2])
    IN  x[1] * (y[2] \div g) < y[1] * (x[2] \div g)
RGt(x, y) == RLt(y, x)

(* ------------------------------ state --------------------------------- *)
VARIABLES
    initial_capital,   \* self.initial_capital
    df,                \* the bar table: a sequence of rows, row = [close |-> price]
    signals,           \* the signal table: [len |-> rows, col |-> column name -> booleans]
    entry_price_col,   \* argument of run
    exit_price_col,    \* argument of run
    pc,                \* position of run: "start", "loop", "done", "error", "metrics"
    i,                 \* rows of df already iterated
    position,          \* None, or <<[entry_date, entry_price]>>
    trades,            \* list of Trade
    opens,             \* history: number of positions opened so far
    result,            \* None, or <<BacktestResult>>
    error,             \* "", or the exception raised
    dsl_text,          \* argument of DSLParser.parse / validate: a sequence of words
    ast,               \* the AST: returned by parse, argument of CodeGenerator.generate
    cross_a,           \* first argument of crosses_above / crosses_below
    cross_b            \* second argument: [scalar |-> BOOLEAN, value |-> ...]

\* the variables of the parser, the evaluator and the indicators
dsl_vars == <<dsl_text, ast, cross_a, cross_b>>

vars == <<initial_capital, df, signals, entry_price_col, exit_price_col, pc, i,
          position, trades, opens, result, error, dsl_vars>>

None == <<>>

\* no DSL text, AST or indicator argument is part of a backtest run
NoDsl == dsl_text = <<>> /\ ast = <<>> /\ cross_a = <<>> /\ cross_b = <<>>


(* --------------------------- inputs ----------------------------------- *)
Columns == {"close"}                 \* the price columns of df
ColNames == {"close", "adj_close"}   \* names a caller may pass to run
SigCols == {"entry", "exit"}
Capitals == {100, 100000}

Rows == [Columns -> {R(p) : p \in 1..MaxPrice}]

BarTables == UNION {[1..n -> Rows] : n \in 0..MaxRows}

\* A signal table with index 1..n and any subset of the columns entry, exit.
SignalTables ==
    UNION {{[len |-> n, col |-> f] : f \in [cs -> [1..n -> BOOLEAN]]} :
           n \in 0..MaxRows, cs \in SUBSET SigCols}

(* ----------------------- BacktestSimulator.run ------------------------ *)
\* signals.loc[idx, c] if c in signals.columns else False
HasLabel(c, idx) == c \in DOMAIN signals.col => idx <= signals.len
Signal(c, idx) == IF c \in DOMAIN signals.col THEN signals.col[c][idx] ELSE FALSE

\* variant: pnl taken as entry_price - exit_price
TradeReversedPnl(entry_date, exit_date, entry_price, exit_price) ==
    LET pnl == RSub(entry_price, exit_price)
    IN  [entry_date |-> entry_date, exit_date |-> exit_date,
         entry_price |-> entry_price, exit_price |-> exit_price,
         pnl |-> pnl, return_pct |-> RMul(RDiv(pnl, entry_price), R(100))]

Trade(entry_date, exit_date, entry_price, exit_price) ==
    LET pnl == RSub(exit_price, entry_price)
    IN  [entry_date |-> entry_date, exit_date |-> exit_date,
         entry_price |-> entry_price, exit_price |-> exit_price,
         pnl |-> pnl, return_pct |-> RMul(RDiv(pnl, entry_price), R(100))]

\* variant: entry_date and exit_date of the trade exchanged
CloseTradeDatesSwapped(pos, idx, row) ==
    Trade(idx, pos[1].entry_date, pos[1].entry_price, row[exit_price_col])

\* the trade that closes position pos at row idx
CloseTrade(pos, idx, row) ==
    Trade(pos[1].entry_date, idx, pos[1].entry_price, row[exit_price_col])

\* variant: an open position is closed on the next row, whatever the signal
ExitWheneverOpen(pos, exit_signal) == pos # None

ExitCondition(pos, exit_signal) == pos # None /\ exit_signal

\* variant: an entry signal opens a position even while one is open
EntryOnSignal(pos, entry_signal) == entry_signal

EntryCondition(pos, entry_signal) == pos = None /\ entry_signal

OpenPosition(idx, row) ==
    <<[entry_date |-> idx, entry_price |-> row[entry_price_col]]>>

\* variant: the exit block does not reset position
AfterExitStillOpen(pos, exit_signal) == pos

\* the position after the exit block of one iteration
AfterExit(pos, exit_signal) == IF ExitCondition(pos, exit_signal) THEN None ELSE pos

\* the date of the forced close after the loop: df.index[-1]
LastIdx == Len(df)


(* ---------------- BacktestSimulator._calculate_metrics ---------------- *)
\* returns = [trade.return_pct for trade in trades]
Returns(trs) == [k \in 1..Len(trs) |-> trs[k].return_pct]

\* sum(xs): left to right, from 0
RECURSIVE Sum(_)
Sum(xs) == IF xs = <<>> THEN Zero
           ELSE RAdd(Sum(SubSeq(xs, 1, Len(xs) - 1)), xs[Len(xs)])

\* np.mean(xs)
Mean(xs) == RDiv(Sum(xs), R(Len(xs)))

\* np.std(xs) ** 2, the population variance
Variance(xs) ==
    LET m == Mean(xs)
    IN  Mean([k \in 1..Len(xs) |-> RMul(RSub(xs[k], m), RSub(xs[k], m))])

\* np.std(xs) > 0
StdPositive(xs) == RGt(Variance(xs), Zero)

Sign(x) == IF x[1] > 0 THEN 1 ELSE IF x[1] < 0 THEN -1 ELSE 0

\* np.mean(xs) / np.std(xs) * np.sqrt(252): the irrational value is held as
\* <<its sign, its square>>
SharpeValue(xs) ==
    <<Sign(Mean(xs)),
      RDiv(RMul(RMul(Mean(xs), Mean(xs)), R(252)), Variance(xs))>>

\* variant: len(returns) > 2
SharpeRatioThreeTrades(xs) ==
    IF Len(xs) > 2
    THEN IF StdPositive(xs) THEN SharpeValue(xs) ELSE None
    ELSE None

SharpeRatio(xs) ==
    IF Len(xs) > 1
    THEN IF StdPositive(xs) THEN SharpeValue(xs) ELSE None
    ELSE None

\* a variant that applies every return to the initial capital, without
\* compounding
EquityCurveNotCompounded(trs, capital) ==
    [k \in 1..Len(trs) |->
        RMul(capital, RAdd(R(1), RDiv(trs[k].return_pct, R(100))))]

\* equity_curve: current_equity *= (1 + trade.return_pct / 100.0) per trade
RECURSIVE EquityCurve(_, _)
EquityCurve(trs, capital) ==
    IF trs = <<>> THEN <<>>
    ELSE LET before == EquityCurve(SubSeq(trs, 1, Len(trs) - 1), capital)
             current == IF before = <<>> THEN capital ELSE before[Len(before)]
         IN  Append(before,
                    RMul(current,
                         RAdd(R(1), RDiv(trs[Len(trs)].return_pct, R(100)))))

\* variant: the running peak starts at the initial capital
RECURSIVE DrawdownFromCapital(_, _)
DrawdownFromCapital(curve, n) ==
    IF n = 0
    THEN [peak |-> R(initial_capital), max_dd |-> Zero, max_dd_pct |-> Zero]
    ELSE LET prev == DrawdownFromCapital(curve, n - 1)
             equity == curve[n]
             peak == IF RGt(equity, prev.peak) THEN equity ELSE prev.peak
             drawdown == RSub(peak, equity)
             drawdown_pct == RMul(RDiv(RSub(peak, equity), peak), R(100))
         IN  [peak |-> peak,
              max_dd |-> IF RGt(drawdown, prev.max_dd) THEN drawdown ELSE prev.max_dd,
              max_dd_pct |-> IF RGt(drawdown_pct, prev.max_dd_pct)
                             THEN drawdown_pct ELSE prev.max_dd_pct]

\* the drawdown loop over equity_curve[1..n], from peak = equity_curve[0]:
\* [peak, max_dd, max_dd_pct] after n elements
RECURSIVE Drawdown(_, _)
Drawdown(curve, n) ==
    IF n = 0 THEN [peak |-> curve[1], max_dd |-> Zero, max_dd_pct |-> Zero]
    ELSE LET prev == Drawdown(curve, n - 1)
             equity == curve[n]
             peak == IF RGt(equity, prev.peak) THEN equity ELSE prev.peak
             drawdown == RSub(peak, equity)
             drawdown_pct == RMul(RDiv(RSub(peak, equity), peak), R(100))
         IN  [peak |-> peak,
              max_dd |-> IF RGt(drawdown, prev.max_dd) THEN drawdown ELSE prev.max_dd,
              max_dd_pct |-> IF RGt(drawdown_pct, prev.max_dd_pct)
                             THEN drawdown_pct ELSE prev.max_dd_pct]

\* variant: t.pnl >= 0
NonLosingTrades(trs) == {k \in 1..Len(trs) : ~RLt(trs[k].pnl, Zero)}

\* winning_trades = [t for t in trades if t.pnl > 0]
WinningTrades(trs) == {k \in 1..Len(trs) : RGt(trs[k].pnl, Zero)}

WinRate(trs) == Rat(Cardinality(WinningTrades(trs)), Len(trs))

\* variant: the compounded return of the trades, in percent
CompoundedReturnPct(trs) ==
    LET curve == EquityCurve(trs, R(100))
    IN  IF trs = <<>> THEN Zero ELSE RSub(curve[Len(curve)], R(100))

\* lines 142-143: total_return_pct = sum(returns)
TotalReturnPct(trs) == Sum(Returns(trs))

TotalReturn(capital, total_return_pct) ==
    RMul(capital, RDiv(total_return_pct, R(100)))

\* variant: sharpe_ratio=0.0 for an empty trade list
EmptyResultZeroSharpe ==
    [trades |-> <<>>, total_return |-> Zero, total_return_pct |-> Zero,
     max_drawdown |-> Zero, max_drawdown_pct |-> Zero, num_trades |-> 0,
     win_rate |-> Zero, avg_return |-> Zero, sharpe_ratio |-> Zero]

EmptyResult ==
    [trades |-> <<>>, total_return |-> Zero, total_return_pct |-> Zero,
     max_drawdown |-> Zero, max_drawdown_pct |-> Zero, num_trades |-> 0,
     win_rate |-> Zero, avg_return |-> Zero, sharpe_ratio |-> None]

calculate_metrics(trs, capital) ==
    IF trs = <<>> THEN EmptyResult
    ELSE LET returns == Returns(trs)
             total_return_pct == TotalReturnPct(trs)
             curve == EquityCurve(trs, R(capital))
             dd == Drawdown(curve, Len(curve))
         IN  [trades |-> trs,
              total_return |-> TotalReturn(R(capital), total_return_pct),
              total_return_pct |-> total_return_pct,
              max_drawdown |-> dd.max_dd,
              max_drawdown_pct |-> dd.max_dd_pct,
              num_trades |-> Len(trs),
              win_rate |-> WinRate(trs),
              avg_return |-> Mean(returns),
              sharpe_ratio |-> SharpeRatio(returns)]

(* ------------------------- the run, step by step ---------------------- *)
TypeInputs ==
    /\ initial_capital \in Capitals
    /\ df \in BarTables
    /\ signals \in SignalTables
    /\ entry_price_col \in ColNames
    /\ exit_price_col \in ColNames

Init ==
    /\ TypeInputs
    /\ pc = "start"
    /\ i = 0
    /\ position = None
    /\ trades = <<>>
    /\ opens = 0
    /\ result = None
    /\ error = ""
    /\ NoDsl

\* a variant that checks the entry price column only
run_start_entry_only ==
    /\ pc = "start"
    /\ IF entry_price_col \notin Columns
       THEN /\ pc' = "error"
            /\ error' = "ValueError"
       ELSE /\ pc' = "loop"
            /\ error' = error
    /\ UNCHANGED <<dsl_vars, initial_capital, df, signals, entry_price_col,
                   exit_price_col,
                   i, position, trades, opens, result>>

\* lines 62-68: the column checks, then trades = [], position = None
run_start ==
    /\ pc = "start"
    /\ IF entry_price_col \notin Columns \/ exit_price_col \notin Columns
       THEN /\ pc' = "error"
            /\ error' = "ValueError"
       ELSE /\ pc' = "loop"
            /\ error' = error
    /\ UNCHANGED <<dsl_vars, initial_capital, df, signals, entry_price_col,
                   exit_price_col,
                   i, position, trades, opens, result>>

\* lines 70-100: one iteration of the loop, on row idx = i + 1
run_row ==
    /\ pc = "loop"
    /\ i < Len(df)
    /\ LET idx == i + 1
           row == df[idx]
       IN  IF ~HasLabel("entry", idx) \/ ~HasLabel("exit", idx)
           THEN /\ pc' = "error"
                /\ error' = "KeyError"
                /\ UNCHANGED <<i, position, trades, opens>>
           ELSE LET entry_signal == Signal("entry", idx)
                    exit_signal == Signal("exit", idx)
                    closing == ExitCondition(position, exit_signal)
                    flat == AfterExit(position, exit_signal)
                    entering == EntryCondition(flat, entry_signal)
                IN  /\ trades' = IF closing
                                 THEN Append(trades, CloseTrade(position, idx, row))
                                 ELSE trades
                    /\ position' = IF entering THEN OpenPosition(idx, row) ELSE flat
                    /\ opens' = IF entering THEN opens + 1 ELSE opens
                    /\ i' = idx
                    /\ UNCHANGED <<pc, error>>
    /\ UNCHANGED <<dsl_vars, initial_capital, df, signals, entry_price_col,
                   exit_price_col,
                   result>>

\* variant: no forced close after the loop
run_finish_no_close ==
    /\ pc = "loop"
    /\ i = Len(df)
    /\ trades' = trades
    /\ position' = position
    /\ result' = <<calculate_metrics(trades', initial_capital)>>
    /\ pc' = "done"
    /\ UNCHANGED <<dsl_vars, initial_capital, df, signals, entry_price_col,
                   exit_price_col,
                   i, opens, error>>

\* lines 102-124: close any open position on the last row, then the metrics
run_finish ==
    /\ pc = "loop"
    /\ i = Len(df)
    /\ trades' = IF position # None
                 THEN Append(trades, CloseTrade(position, LastIdx, df[LastIdx]))
                 ELSE trades
    /\ position' = position
    /\ result' = <<calculate_metrics(trades', initial_capital)>>
    /\ pc' = "done"
    /\ UNCHANGED <<dsl_vars, initial_capital, df, signals, entry_price_col,
                   exit_price_col,
                   i, opens, error>>

Next == run_start \/ run_row \/ run_finish

Spec == Init /\ [][Next]_vars


(* ------------- _calculate_metrics as a function of a trade list ------- *)
\* Trade lists that run can return: trade k entered on day 2k-1 and closed on
\* day 2k, at any two prices.
TradePrices == {R(p) : p \in 1..MaxTradePrice}

TradeAt(k, pr) == Trade(2 * k - 1, 2 * k, pr[1], pr[2])

\* the trade list holding trade k at prices f[k], k = 1..n
TradeList(n, f) == [k \in 1..n |-> TradeAt(k, f[k])]

InitMetrics ==
    /\ initial_capital \in Capitals
    /\ \E n \in 0..MaxTrades : \E f \in [1..n -> TradePrices \X TradePrices] :
          trades = TradeList(n, f)
    /\ df = <<>>
    /\ signals = [len |-> 0, col |-> <<>>]
    /\ entry_price_col = "close"
    /\ exit_price_col = "close"
    /\ pc = "metrics"
    /\ i = 0
    /\ position = None
    /\ opens = Len(trades)
    /\ result = None
    /\ error = ""
    /\ NoDsl

\* line 124: return self._calculate_metrics(trades, df)
metrics_call ==
    /\ pc = "metrics"
    /\ result' = <<calculate_metrics(trades, initial_capital)>>
    /\ pc' = "done"
    /\ UNCHANGED <<dsl_vars, initial_capital, df, signals, entry_price_col,
                   exit_price_col,
                   i, position, trades, opens, error>>

NextMetrics == metrics_call

SpecMetrics == InitMetrics /\ [][NextMetrics]_vars


(* ============================ the claims ============================== *)
LastTrade == trades[Len(trades)]

\* the step is one loop iteration that raised nothing
RowStep == pc = "loop" /\ pc' = "loop" /\ i' = i + 1

(* C1, as claimed: after a position is closed at row r no position is opened
   at row r, so a trade's entry_date is strictly later than the exit_date of
   the trade closed just before it (and so is the open position's). *)
C1_NoReentryOnExitRow ==
    /\ \A k \in 1..(Len(trades) - 1) :
          trades[k + 1].entry_date > trades[k].exit_date
    /\ (pc = "loop" /\ position # None /\ trades # <<>>)
          => position[1].entry_date > LastTrade.exit_date

(* C1, amended: when a position is open at row r and signals.exit is true at
   row r, the position is closed at row r (one trade with exit_date r is
   appended); if signals.entry is also true at row r a new position is opened
   at that same row r, and otherwise no position is open after row r. *)
C1_ExitThenReentry ==
    [][(RowStep /\ position # None /\ Signal("exit", i'))
         => /\ Len(trades') = Len(trades) + 1
            /\ trades'[Len(trades')].exit_date = i'
            /\ trades'[Len(trades')].entry_date = position[1].entry_date
            /\ IF Signal("entry", i')
               THEN position' # None /\ position'[1].entry_date = i'
               ELSE position' = None]_vars

\* a position was closed and reopened on the same row
C1_Witness ==
    /\ pc = "loop" /\ position # None /\ trades # <<>>
    /\ position[1].entry_date = LastTrade.exit_date

(* C2: at every step at most one position is open: positions opened minus
   trades closed is 0 or 1, and is 1 exactly while the loop holds a position;
   consecutive trades do not overlap: trade k+1 is entered no earlier than
   trade k is exited. *)
C2_AtMostOneOpen ==
    /\ opens - Len(trades) \in {0, 1}
    /\ pc = "loop" => (position # None <=> opens - Len(trades) = 1)
    /\ pc = "done" => opens = Len(trades)
    /\ \A k \in 1..(Len(trades) - 1) :
          trades[k + 1].entry_date >= trades[k].exit_date

C2_Witness ==
    /\ pc = "done" /\ Len(df) = MaxRows /\ Len(trades) >= 2
    /\ trades[2].entry_date > trades[1].exit_date

(* C3: every trade, a forced-liquidation trade included, has
   exit_date >= entry_date. *)
C3_ExitNotBeforeEntry ==
    \A k \in 1..Len(trades) : trades[k].exit_date >= trades[k].entry_date

\* a run that ended with a forced liquidation of a position opened before
\* the last row, after an earlier trade
C3_Witness ==
    /\ pc = "done" /\ position # None /\ Len(trades) >= 2
    /\ LastTrade.exit_date > LastTrade.entry_date


(* C4: a run ends with zero open positions: every position opened has its
   trade.  If a position is still open after the last row, exactly one more
   trade is emitted, with the last row's date as exit_date and the last row's
   exit price column as exit_price; if no position is open no trade is
   added. *)
C4_ForcedLiquidation ==
    [][(pc = "loop" /\ pc' = "done")
        => /\ opens = Len(trades')
           /\ result'[1].trades = trades'
           /\ IF position # None
              THEN /\ Len(trades') = Len(trades) + 1
                   /\ SubSeq(trades', 1, Len(trades)) = trades
                   /\ trades'[Len(trades')].entry_date = position[1].entry_date
                   /\ trades'[Len(trades')].exit_date = Len(df)
                   /\ trades'[Len(trades')].exit_price = df[Len(df)][exit_price_col]
              ELSE trades' = trades]_vars

\* a run ended by liquidating a position opened on the last of several rows
C4_Witness ==
    /\ pc = "done" /\ position # None /\ Len(df) >= 2
    /\ LastTrade.entry_date = Len(df) /\ LastTrade.exit_date = Len(df)

\* no exit signal on the rows from..to
NoExit(from, to) == \A j \in from..to : ~Signal("exit", j)

(* C5: a position opened at row r is closed at the first row r' > r whose
   exit signal is true: no exit signal is true strictly between a trade's
   entry and exit rows, a trade not closed by the forced liquidation has a
   true exit signal on its exit row, later than its entry row, and a position
   still open has seen no exit signal since its entry row.  Exit signals seen
   while no position is open emit no trade: there are never more trades than
   positions opened.  entry=[T,F,F], exit=[F,F,T] yields exactly one trade,
   entered at row 1 and exited at row 3. *)
C5_ClosedAtFirstExit ==
    /\ \A k \in 1..Len(trades) :
          LET t == trades[k]
          IN  /\ NoExit(t.entry_date + 1, t.exit_date - 1)
              /\ \/ t.exit_date > t.entry_date /\ Signal("exit", t.exit_date)
                 \/ /\ pc = "done" /\ k = Len(trades) /\ position # None
                    /\ t.exit_date = Len(df)
                    /\ NoExit(t.entry_date + 1, Len(df))
    /\ (pc = "loop" /\ position # None) => NoExit(position[1].entry_date + 1, i)
    /\ Len(trades) <= opens
    /\ ( /\ pc = "done" /\ Len(df) = 3 /\ signals.len = 3
         /\ DOMAIN signals.col = SigCols
         /\ signals.col["entry"] = <<TRUE, FALSE, FALSE>>
         /\ signals.col["exit"] = <<FALSE, FALSE, TRUE>> )
       => /\ Len(trades) = 1
          /\ trades[1].entry_date = 1 /\ trades[1].exit_date = 3

C5_Witness ==
    /\ pc = "done" /\ Len(df) = 3 /\ signals.len = 3
    /\ DOMAIN signals.col = SigCols
    /\ signals.col["entry"] = <<TRUE, FALSE, FALSE>>
    /\ signals.col["exit"] = <<FALSE, FALSE, TRUE>>
    /\ Len(trades) = 1

(* C6: every trade has the entry price of the entry price column at its entry
   row and the exit price of the exit price column at its exit row,
   pnl = exit_price - entry_price and return_pct = pnl / entry_price * 100;
   its entry row has a true entry signal and lies no earlier than the exit of
   the trade before it (no position was open). *)
C6_TradeFields ==
    \A k \in 1..Len(trades) :
        LET t == trades[k]
        IN  /\ t.entry_price = df[t.entry_date][entry_price_col]
            /\ t.exit_price = df[t.exit_date][exit_price_col]
            /\ RAdd(t.pnl, t.entry_price) = t.exit_price
            /\ RMul(t.return_pct, t.entry_price) = RMul(t.pnl, R(100))
            /\ Signal("entry", t.entry_date)
            /\ k > 1 => trades[k - 1].exit_date <= t.entry_date

\* a finished run with a losing and a winning trade
C6_Witness ==
    /\ pc = "done" /\ Len(trades) >= 2
    /\ trades[1].pnl[1] < 0 /\ trades[2].pnl[1] > 0
    /\ trades[1].exit_date > trades[1].entry_date

NoEntrySignal == \A idx \in 1..Len(df) : ~Signal("entry", idx)

(* C7: if the entry signal is false on every row, whatever the exit signals,
   the run returns no trade, every metric 0 and sharpe_ratio None. *)
C7_NoEntryNoTrades ==
    (pc = "done" /\ NoEntrySignal)
      => /\ trades = <<>>
         /\ result[1].trades = <<>>
         /\ result[1].total_return = Zero
         /\ result[1].total_return_pct = Zero
         /\ result[1].max_drawdown = Zero
         /\ result[1].max_drawdown_pct = Zero
         /\ result[1].num_trades = 0
         /\ result[1].win_rate = Zero
         /\ result[1].avg_return = Zero
         /\ result[1].sharpe_ratio = None

\* a finished run over several rows with exit signals but no entry signal
C7_Witness ==
    /\ pc = "done" /\ Len(df) >= 2 /\ NoEntrySignal
    /\ DOMAIN signals.col = SigCols
    /\ \E idx \in 1..Len(df) : Signal("exit", idx)


(* ---------------- claims about _calculate_metrics --------------------- *)
Res == result[1]

Wins == Cardinality({k \in 1..Len(trades) : trades[k].pnl[1] > 0})

(* C8: num_trades is the length of the trade list; win_rate is the number of
   trades with pnl strictly positive over num_trades when there are trades,
   and 0 otherwise, so 0 <= win_rate <= 1; a trade with pnl = 0 is not a
   win. *)
C8_WinRate ==
    pc = "done"
      => /\ Res.num_trades = Len(Res.trades)
         /\ Res.trades = trades
         /\ IF trades = <<>> THEN Res.win_rate = Zero
            ELSE RMul(Res.win_rate, R(Len(trades))) = R(Wins)
         /\ ~RLt(Res.win_rate, Zero) /\ ~RGt(Res.win_rate, R(1))

\* metrics of a list with a winning trade and a trade with pnl = 0
C8_Witness ==
    /\ pc = "done" /\ Len(trades) >= 2
    /\ \E k \in 1..Len(trades) : trades[k].pnl = Zero
    /\ \E k \in 1..Len(trades) : trades[k].pnl[1] > 0
    /\ \A k \in 1..Len(trades) : trades[k].pnl[1] >= 0

AllSameReturn ==
    \A j, k \in 1..Len(trades) : trades[j].return_pct = trades[k].return_pct

(* C9: sharpe_ratio is None when there is at most one trade and when all
   trades have the same return_pct; with more than one trade and return_pct
   values not all equal it is a number. *)
C9_SharpeNone ==
    pc = "done"
      => (Res.sharpe_ratio = None <=> (Len(trades) <= 1 \/ AllSameReturn))

\* metrics of three trades with the same nonzero return
C9_Witness ==
    /\ pc = "done" /\ Len(trades) = 3 /\ AllSameReturn
    /\ trades[1].return_pct # Zero
    /\ Res.sharpe_ratio = None

\* the returns of the trades, added up from the first to the k-th
RECURSIVE ReturnsUpTo(_)
ReturnsUpTo(k) ==
    IF k = 0 THEN Zero ELSE RAdd(ReturnsUpTo(k - 1), trades[k].return_pct)

\* the trade list reordered by the permutation p of its positions
Reordered(p) ==
    TradeList(Len(trades),
              [k \in 1..Len(trades) |->
                  <<trades[p[k]].entry_price, trades[p[k]].exit_price>>])

(* C10: for a nonempty trade list total_return_pct is the plain sum of the
   return_pct values (not compounded), total_return is
   initial_capital * total_return_pct / 100, and neither depends on the
   order of the trades. *)
C10_TotalReturn ==
    (pc = "done" /\ trades # <<>>)
      => /\ Res.total_return_pct = ReturnsUpTo(Len(trades))
         /\ RMul(Res.total_return, R(100))
              = RMul(R(initial_capital), Res.total_return_pct)
         /\ \A p \in Permutations(1..Len(trades)) :
              LET other == TotalReturnPct(Reordered(p))
              IN  /\ other = Res.total_return_pct
                  /\ TotalReturn(R(initial_capital), other) = Res.total_return

\* metrics of three trades with three different returns, one of them a loss
C10_Witness ==
    /\ pc = "done" /\ Len(trades) = 3
    /\ trades[1].return_pct # trades[2].return_pct
    /\ trades[2].return_pct # trades[3].return_pct
    /\ trades[1].return_pct # trades[3].return_pct
    /\ Res.total_return_pct # Zero

\* equity[k] of the claim: the initial capital compounded by the first k returns
RECURSIVE EquityAfter(_)
EquityAfter(k) ==
    RMul(IF k = 1 THEN R(initial_capital) ELSE EquityAfter(k - 1),
         RAdd(R(1), RDiv(trades[k].return_pct, R(100))))

\* peak[k]: the largest of equity[1..k]
PeakAfter(k) ==
    CHOOSE p \in {EquityAfter(j) : j \in 1..k} :
        \A j \in 1..k : ~RGt(EquityAfter(j), p)

DrawdownAt(k) == RSub(PeakAfter(k), EquityAfter(k))

DrawdownPctAt(k) == RMul(RDiv(DrawdownAt(k), PeakAfter(k)), R(100))

(* C11: for a nonempty trade list max_drawdown is the largest, over the
   compounded equity curve, of peak[k] - equity[k], and max_drawdown_pct the
   largest of (peak[k] - equity[k]) / peak[k] * 100, where peak[k] is the
   maximum of equity[1..k]; neither is negative. *)
C11_MaxDrawdown ==
    (pc = "done" /\ trades # <<>>)
      => LET ks == 1..Len(trades)
         IN  /\ \E k \in ks : Res.max_drawdown = DrawdownAt(k)
             /\ \A k \in ks : ~RGt(DrawdownAt(k), Res.max_drawdown)
             /\ \E k \in ks : Res.max_drawdown_pct = DrawdownPctAt(k)
             /\ \A k \in ks : ~RGt(DrawdownPctAt(k), Res.max_drawdown_pct)
             /\ ~RLt(Res.max_drawdown, Zero)
             /\ ~RLt(Res.max_drawdown_pct, Zero)

\* metrics of a list whose equity rises to a peak, falls and partly recovers:
\* the largest drawdown is met before the last trade
C11_Witness ==
    /\ pc = "done" /\ Len(trades) = 3
    /\ RGt(trades[1].return_pct, Zero)
    /\ RLt(trades[2].return_pct, Zero)
    /\ RGt(trades[3].return_pct, Zero)
    /\ Res.max_drawdown = DrawdownAt(2)
    /\ RGt(Res.max_drawdown, DrawdownAt(3))
    /\ RGt(Res.max_drawdown_pct, Zero)

(* ------------------------- claims about run's errors ------------------ *)
MissingPriceColumn ==
    entry_price_col \notin Columns \/ exit_price_col \notin Columns

(* C12: when the entry or the exit price column is not a column of the bar
   table, run fails with the configuration error (a ValueError) before any
   row is processed: no row is visited, no position opened, no trade made
   and no result returned. *)
C12_MissingColumnFailsFirst ==
    MissingPriceColumn
      => /\ pc \in {"start", "error"}
         /\ pc = "error" => error = "ValueError"
         /\ i = 0 /\ opens = 0 /\ position = None
         /\ trades = <<>> /\ result = None

\* a run that failed on the exit price column alone, over a bar table whose
\* first row carries an entry signal
C12_Witness ==
    /\ pc = "error" /\ error = "ValueError"
    /\ entry_price_col \in Columns /\ exit_price_col \notin Columns
    /\ Len(df) >= 2 /\ signals.len = Len(df)
    /\ Signal("entry", 1) /\ Signal("exit", 2)

(* C13: run raises no error when the bar table and the signal table have
   the same length and index; when the signal table is shorter or longer
   than the bar table the run is rejected with the configuration error (the
   ValueError of a missing price column): it returns no result and fails
   with no other kind of error. *)
C13_LengthMismatchRejected ==
    /\ (signals.len = Len(df) /\ ~MissingPriceColumn) => error = ""
    /\ signals.len # Len(df)
         => /\ result = None
            /\ error \in {"", "ValueError"}
            /\ pc \in {"start", "error"}


(* ====================================================================== *)
(* The DSL parser of src/src/dsl_parser.py.                               *)
(*                                                                        *)
(* A DSL text is a sequence of words (whitespace is ignored by the        *)
(* grammar).  The lexer turns the words into terminals of DSL_GRAMMAR;    *)
(* the LALR parser built by Lark accepts the token sequences the grammar  *)
(* derives and calls the DSLTransformer method of each rule with the      *)
(* rule's children.  Lark drops from the children every terminal written  *)
(* in a rule as an anonymous string literal ("ENTRY", ":", ">", "AND",    *)
(* ...) and keeps the named terminals (SERIES_NAME, INDICATOR_NAME_TOKEN, *)
(* CROSSES_ABOVE, CROSSES_BELOW, SIGNED_NUMBER).                          *)
(*                                                                        *)
(* A parser P_x(toks, p) gives every way rule x matches the tokens from   *)
(* position p on: the set of [node |-> transformed value, pos |-> next    *)
(* position].  A Python number n is the record Number(n), a Python dict   *)
(* is a function on its keys, a Python list is a sequence.                *)
(* ====================================================================== *)
MaxRules == 3

(* ------------------------------ terminals ----------------------------- *)
SeriesNames == {"open", "high", "low", "close", "volume"}
IndicatorNames == {"sma", "rsi", "ema"}
CrossNames == {"crosses_above", "crosses_below"}
Numerals == {"20", "14", "5", "1", "2", "2.0", "1.5"}
SymbolOperators == {">", "<", ">=", "<=", "==", "!="}
Operators == SymbolOperators \cup CrossNames
BooleanWords == {"AND", "OR"}
Keywords ==
    {"ENTRY", "EXIT", ":", "(", ")", ",", "%", "yesterday", "last_week",
     "n_days_ago", "change", "percent_change"}

\* the terminals a rule names: Lark keeps their tokens among the children
NamedTerminals == SeriesNames \cup IndicatorNames \cup CrossNames \cup Numerals

\* the terminals written as string literals in the rules: Lark filters them
AnonymousTerminals == SymbolOperators \cup BooleanWords \cup Keywords

Terminals == NamedTerminals \cup AnonymousTerminals

\* words that hold no terminal, and a word that holds two
JunkWords == {"and", "foo", "="}
DoubleWords == {">>"}

\* the lexer on one word: its tokens, or <<"?">> where no terminal matches
LexWord(w) ==
    IF w \in Terminals THEN <<w>>
    ELSE IF w = ">>" THEN <<">", ">">>
    ELSE <<"?">>

RECURSIVE Lex(_)
Lex(text) ==
    IF text = <<>> THEN <<>> ELSE LexWord(Head(text)) \o Lex(Tail(text))

\* float(token), as an exact value
NumeralValue(w) ==
    CASE w = "20" -> R(20)
      [] w = "14" -> R(14)
      [] w = "5" -> R(5)
      [] w = "1" -> R(1)
      [] w \in {"2", "2.0"} -> R(2)
      [] w = "1.5" -> Rat(3, 2)

Number(v) == [type |-> "number", number |-> v]

Digit(n) ==
    CASE n = 0 -> "0" [] n = 1 -> "1" [] n = 2 -> "2" [] n = 3 -> "3"
      [] n = 4 -> "4" [] n = 5 -> "5" [] n = 6 -> "6" [] n = 7 -> "7"
      [] n = 8 -> "8" [] n = 9 -> "9"

\* str(n) of an int n >= 0
RECURSIVE IntText(_)
IntText(n) == IF n < 10 THEN Digit(n) ELSE IntText(n \div 10) \o Digit(n % 10)

\* the decimals of n / d < 1, for a fraction whose expansion ends
RECURSIVE FracText(_, _)
FracText(n, d) ==
    IF n = 0 THEN ""
    ELSE Digit((10 * n) \div d) \o FracText((10 * n) % d, d)

\* str(v) of a number v >= 0: an int, or a float that is not whole
NumberText(v) ==
    IF v[2] = 1 THEN IntText(v[1])
    ELSE IntText(v[1] \div v[2]) \o "." \o FracText(v[1] % v[2], v[2])

\* str(x): of a number as above; of a dict "{'type': ..., ...}", of which
\* the value of 'type' is kept and the other items are elided
Str(x) ==
    IF x.type = "number" THEN NumberText(x.number)
    ELSE "{'type': '" \o x.type \o "', ...}"

\* str.upper()
Upper(w) ==
    CASE w \in {"and", "AND"} -> "AND"
      [] w \in {"or", "OR"} -> "OR"
      [] OTHER -> w

Kept(tok) == tok \in NamedTerminals

\* the children Lark passes for matched tokens: the kept ones
Children(toks) == SelectSeq(toks, Kept)

(* ------------------------- DSLTransformer ----------------------------- *)
EmptyDict == [k \in {} |-> <<>>]

\* result.update(item) for every item
RECURSIVE UpdateAll(_)
UpdateAll(items) ==
    IF items = <<>> THEN EmptyDict
    ELSE items[Len(items)] @@ UpdateAll(SubSeq(items, 1, Len(items) - 1))

start(items) == UpdateAll(items)
strategy(items) == UpdateAll(items)
entry_section(items) == "entry" :> items[1]
exit_section(items) == "exit" :> items[1]

\* the loop of rule_list over items[1], items[2] (op), items[3] (right), ...
RECURSIVE RuleListChain(_, _)
RuleListChain(items, n) ==
    IF n = 1 THEN items[1]
    ELSE [type |-> "boolean_op", operator |-> items[n - 1],
          left |-> RuleListChain(items, n - 2), right |-> items[n]]

rule_list(items) ==
    IF Len(items) = 1 THEN items[1]
    ELSE RuleListChain(items, IF Len(items) % 2 = 1 THEN Len(items)
                              ELSE Len(items) - 1)

rule(items) == items[1]

comparison(items) ==
    [type |-> "binary_op", operator |-> items[2],
     left |-> items[1], right |-> items[3]]

operator(items) == IF items = <<>> THEN ">" ELSE items[1]

boolean_op(items) == IF items = <<>> THEN "AND" ELSE Upper(items[1])

expression(items) == items[1]

series(items) == [type |-> "series", value |-> items[1]]

DefaultPeriod(name) ==
    CASE name = "rsi" -> <<Number(R(14))>>
      [] name = "sma" -> <<Number(R(20))>>
      [] name = "ema" -> <<Number(R(20))>>
      [] OTHER -> None

\* variant: an argument that is not a series stands for the close series
indicator_of_close(items) ==
    LET name == items[1]
        expr_node == items[2]
        period == IF Len(items) > 2 THEN <<items[3]>> ELSE DefaultPeriod(name)
        series_value == IF expr_node.type = "series" THEN expr_node.value
                        ELSE "close"
    IN  [type |-> "indicator", name |-> name, series |-> series_value,
         period |-> period[1]]

indicator(items) ==
    LET name == items[1]
        expr_node == items[2]
        period == IF Len(items) > 2 THEN <<items[3]>> ELSE DefaultPeriod(name)
        series_value == IF expr_node.type = "series" THEN expr_node.value
                        ELSE Str(expr_node)
    IN  [type |-> "indicator", name |-> name, series |-> series_value,
         period |-> period[1]]

indicator_name(items) == items[1]

function_call(items) == items[1]
time_function(items) == items[1]
change_function(items) == items[1]

\* the first number among items[2..], or 1
NValue(items) ==
    LET ks == {k \in 2..Len(items) : items[k].type = "number"}
    IN  IF ks = {} THEN Number(R(1))
        ELSE items[CHOOSE k \in ks : \A j \in ks : k <= j]

SeriesArg(items) == [type |-> "series", value |-> items[1].value]

yesterday_func(items) ==
    [type |-> "function_call", name |-> "yesterday", args |-> <<SeriesArg(items)>>]

last_week_func(items) ==
    [type |-> "function_call", name |-> "last_week", args |-> <<SeriesArg(items)>>]

n_days_ago_func(items) ==
    [type |-> "function_call", name |-> "n_days_ago",
     args |-> <<SeriesArg(items), NValue(items)>>]

change_func(items) ==
    [type |-> "function_call", name |-> "change",
     args |-> <<SeriesArg(items), NValue(items)>>]

percent_change_func(items) ==
    [type |-> "function_call", name |-> "percent_change",
     args |-> <<SeriesArg(items), NValue(items)>>]

cross_function(items) ==
    [type |-> "function_call", name |-> items[1], args |-> <<items[2], items[3]>>]

number(items) == Number(NumeralValue(items[1]))
percentage(items) == Number(NumeralValue(items[1]))

(* --------------------------- DSL_GRAMMAR ------------------------------ *)
Tok(toks, p) == IF p \in 1..Len(toks) THEN toks[p] ELSE "$END"

Match(node, pos) == [node |-> node, pos |-> pos]

\* series: SERIES_NAME
P_series(toks, p) ==
    IF Tok(toks, p) \in SeriesNames
    THEN {Match(series(Children(<<toks[p]>>)), p + 1)} ELSE {}

\* number: SIGNED_NUMBER
P_number(toks, p) ==
    IF Tok(toks, p) \in Numerals
    THEN {Match(number(Children(<<toks[p]>>)), p + 1)} ELSE {}

\* percentage: SIGNED_NUMBER "%"
P_percentage(toks, p) ==
    IF Tok(toks, p) \in Numerals /\ Tok(toks, p + 1) = "%"
    THEN {Match(percentage(Children(<<toks[p], toks[p + 1]>>)), p + 2)} ELSE {}

\* operator: ">" | "<" | ">=" | "<=" | "==" | "!=" | CROSSES_ABOVE | CROSSES_BELOW
P_operator(toks, p) ==
    IF Tok(toks, p) \in Operators
    THEN {Match(operator(Children(<<toks[p]>>)), p + 1)} ELSE {}

\* boolean_op: "AND" | "OR"
P_boolean_op(toks, p) ==
    IF Tok(toks, p) \in BooleanWords
    THEN {Match(boolean_op(Children(<<toks[p]>>)), p + 1)} ELSE {}

\* indicator_name: INDICATOR_NAME_TOKEN
P_indicator_name(toks, p) ==
    IF Tok(toks, p) \in IndicatorNames
    THEN {Match(indicator_name(Children(<<toks[p]>>)), p + 1)} ELSE {}

\* name "(" series ")"
P_call_series(toks, p, name) ==
    IF Tok(toks, p) = name /\ Tok(toks, p + 1) = "("
    THEN {Match(<<s.node>>, s.pos + 1) :
            s \in {s \in P_series(toks, p + 2) : Tok(toks, s.pos) = ")"}}
    ELSE {}

\* name "(" series "," number ")"
P_call_series_number(toks, p, name) ==
    IF Tok(toks, p) = name /\ Tok(toks, p + 1) = "("
    THEN UNION {{Match(<<s.node, n.node>>, n.pos + 1) :
                   n \in {n \in P_number(toks, s.pos + 1) : Tok(toks, n.pos) = ")"}} :
                s \in {s \in P_series(toks, p + 2) : Tok(toks, s.pos) = ","}}
    ELSE {}

P_yesterday_func(toks, p) ==
    {Match(yesterday_func(m.node), m.pos) : m \in P_call_series(toks, p, "yesterday")}

P_last_week_func(toks, p) ==
    {Match(last_week_func(m.node), m.pos) : m \in P_call_series(toks, p, "last_week")}

P_n_days_ago_func(toks, p) ==
    {Match(n_days_ago_func(m.node), m.pos) :
        m \in P_call_series_number(toks, p, "n_days_ago")}

P_change_func(toks, p) ==
    {Match(change_func(m.node), m.pos) :
        m \in P_call_series_number(toks, p, "change")}

P_percent_change_func(toks, p) ==
    {Match(percent_change_func(m.node), m.pos) :
        m \in P_call_series_number(toks, p, "percent_change")}

\* time_function: yesterday_func | last_week_func | n_days_ago_func
P_time_function(toks, p) ==
    {Match(time_function(<<m.node>>), m.pos) :
        m \in P_yesterday_func(toks, p) \cup P_last_week_func(toks, p)
                \cup P_n_days_ago_func(toks, p)}

\* change_function: change_func | percent_change_func
P_change_function(toks, p) ==
    {Match(change_function(<<m.node>>), m.pos) :
        m \in P_change_func(toks, p) \cup P_percent_change_func(toks, p)}

RECURSIVE P_expression(_, _)

\* indicator: indicator_name "(" expression ("," number)? ")"
P_indicator(toks, p) ==
    UNION {IF Tok(toks, nm.pos) # "(" THEN {}
           ELSE UNION {
             (IF Tok(toks, e.pos) = ")"
              THEN {Match(indicator(<<nm.node, e.node>>), e.pos + 1)} ELSE {})
             \cup
             (IF Tok(toks, e.pos) = ","
              THEN {Match(indicator(<<nm.node, e.node, n.node>>), n.pos + 1) :
                      n \in {n \in P_number(toks, e.pos + 1) : Tok(toks, n.pos) = ")"}}
              ELSE {}) :
             e \in P_expression(toks, nm.pos + 1)} :
           nm \in P_indicator_name(toks, p)}

\* cross_function: CROSSES_ABOVE "(" expression "," expression ")"
\*               | CROSSES_BELOW "(" expression "," expression ")"
P_cross_function(toks, p) ==
    IF Tok(toks, p) \in CrossNames /\ Tok(toks, p + 1) = "("
    THEN UNION {UNION {
           {Match(cross_function(Children(<<toks[p]>>) \o <<l.node, r.node>>),
                  r.pos + 1)} :
           r \in {r \in P_expression(toks, l.pos + 1) : Tok(toks, r.pos) = ")"}} :
           l \in {l \in P_expression(toks, p + 2) : Tok(toks, l.pos) = ","}}
    ELSE {}

\* function_call: time_function | cross_function | change_function
P_function_call(toks, p) ==
    {Match(function_call(<<m.node>>), m.pos) :
        m \in P_time_function(toks, p) \cup P_cross_function(toks, p)
                \cup P_change_function(toks, p)}

\* expression: series | indicator | function_call | number | percentage
\*           | "(" expression ")"
P_expression(toks, p) ==
    {Match(expression(<<m.node>>), m.pos) :
        m \in P_series(toks, p) \cup P_indicator(toks, p)
                \cup P_function_call(toks, p) \cup P_number(toks, p)
                \cup P_percentage(toks, p)
                \cup (IF Tok(toks, p) = "("
                      THEN {Match(e.node, e.pos + 1) :
                              e \in {e \in P_expression(toks, p + 1) :
                                       Tok(toks, e.pos) = ")"}}
                      ELSE {})}

\* comparison: expression operator expression
P_comparison(toks, p) ==
    UNION {UNION {
      {Match(comparison(<<l.node, o.node, r.node>>), r.pos) :
         r \in P_expression(toks, o.pos)} :
      o \in P_operator(toks, l.pos)} :
      l \in P_expression(toks, p)}

RECURSIVE P_rule_list(_, _)

\* rule: comparison | "(" rule_list ")"
P_rule(toks, p) ==
    {Match(rule(<<m.node>>), m.pos) :
        m \in P_comparison(toks, p)
                \cup (IF Tok(toks, p) = "("
                      THEN {Match(l.node, l.pos + 1) :
                              l \in {l \in P_rule_list(toks, p + 1) :
                                       Tok(toks, l.pos) = ")"}}
                      ELSE {})}

\* (boolean_op rule)* after the children items, from position p
RECURSIVE P_more_rules(_, _, _)
P_more_rules(toks, items, p) ==
    {Match(items, p)}
    \cup UNION {UNION {
           P_more_rules(toks, items \o <<b.node, r.node>>, r.pos) :
           r \in P_rule(toks, b.pos)} :
           b \in P_boolean_op(toks, p)}

\* rule_list: rule (boolean_op rule)*
P_rule_list(toks, p) ==
    UNION {{Match(rule_list(m.node), m.pos) :
              m \in P_more_rules(toks, <<r.node>>, r.pos)} :
           r \in P_rule(toks, p)}

\* name ":" rule_list
P_section(toks, p, name) ==
    IF Tok(toks, p) = name /\ Tok(toks, p + 1) = ":"
    THEN P_rule_list(toks, p + 2) ELSE {}

\* entry_section: "ENTRY" ":" rule_list
P_entry_section(toks, p) ==
    {Match(entry_section(<<m.node>>), m.pos) : m \in P_section(toks, p, "ENTRY")}

\* exit_section: "EXIT" ":" rule_list
P_exit_section(toks, p) ==
    {Match(exit_section(<<m.node>>), m.pos) : m \in P_section(toks, p, "EXIT")}

\* variant: the sections in either order
P_strategy_any_order(toks, p) ==
    LET both(first, second) ==
          UNION {{Match(strategy(<<a.node, b.node>>), b.pos) :
                    b \in IF second = "EXIT" THEN P_exit_section(toks, a.pos)
                          ELSE P_entry_section(toks, a.pos)} :
                 a \in IF first = "ENTRY" THEN P_entry_section(toks, p)
                       ELSE P_exit_section(toks, p)}
    IN  both("ENTRY", "EXIT") \cup both("EXIT", "ENTRY")
        \cup {Match(strategy(<<a.node>>), a.pos) :
                a \in P_entry_section(toks, p) \cup P_exit_section(toks, p)}

\* strategy: entry_section exit_section? | exit_section
P_strategy(toks, p) ==
    UNION {{Match(strategy(<<en.node>>), en.pos)}
           \cup {Match(strategy(<<en.node, ex.node>>), ex.pos) :
                   ex \in P_exit_section(toks, en.pos)} :
           en \in P_entry_section(toks, p)}
    \cup {Match(strategy(<<ex.node>>), ex.pos) : ex \in P_exit_section(toks, p)}

\* start: strategy
P_start(toks, p) ==
    {Match(start(<<m.node>>), m.pos) : m \in P_strategy(toks, p)}

(* ----------------------------- DSLParser ------------------------------ *)
\* self.parser.parse(dsl_text): the parses of the whole token sequence
Parses(toks) == {m \in P_start(toks, 1) : m.pos = Len(toks) + 1}

\* lines 398-402: entry and exit become lists
AsLists(res) == [k \in DOMAIN res |-> <<res[k]>>]

\* DSLParser.parse: the AST, or the ValueError raised for a LarkError
parse(text) ==
    LET toks == Lex(text)
    IN  IF Parses(toks) = {} THEN [ok |-> FALSE, error |-> "ValueError"]
        ELSE [ok |-> TRUE, ast |-> AsLists((CHOOSE m \in Parses(toks) : TRUE).node)]

\* DSLParser.validate
validate(text) == parse(text).ok

(* ------------------ DSL texts given to the parser --------------------- *)
Operands ==
    {<<"close">>, <<"5">>, <<"sma", "(", "close", ",", "20", ")">>,
     <<"yesterday", "(", "close", ")">>}

ComparisonText(l, o, r) == l \o <<o>> \o r

SectionText(name, rules) == <<name, ":">> \o rules

\* ENTRY: l o r, alone or followed by EXIT: l o2 r; o and o2 may be ">>"
OneRuleTexts ==
    UNION {{SectionText("ENTRY", ComparisonText(l, o, r))}
           \cup {SectionText("ENTRY", ComparisonText(l, o, r))
                   \o SectionText("EXIT", ComparisonText(l, o2, r)) :
                 o2 \in Operators \cup DoubleWords} :
           l \in Operands, r \in Operands, o \in Operators \cup DoubleWords}

\* the three rules A, B, C that rule lists are made of
RuleA == ComparisonText(<<"close">>, ">", <<"5">>)
RuleB == ComparisonText(<<"close">>, "crosses_above", <<"sma", "(", "close", ")">>)
RuleC == ComparisonText(<<"rsi", "(", "close", ",", "14", ")">>, "crosses_below", <<"20">>)
RuleTexts == {RuleA, RuleB, RuleC}

\* r[1] b[1] r[2] b[2] ... r[n]
RECURSIVE RuleListText(_, _, _)
RuleListText(n, r, b) ==
    IF n = 1 THEN r[1]
    ELSE RuleListText(n - 1, r, b) \o <<b[n - 1]>> \o r[n]

\* r[1] b[1] ... ( r[n-1] b[n-1] r[n] ): the last two rules in parentheses
GroupedRuleListText(n, r, b) ==
    IF n < 2 THEN <<"(">> \o r[1] \o <<")">>
    ELSE (IF n = 2 THEN <<>> ELSE RuleListText(n - 2, r, b) \o <<b[n - 2]>>)
         \o <<"(">> \o r[n - 1] \o <<b[n - 1]>> \o r[n] \o <<")">>

ScenarioA ==
    SectionText("ENTRY", ComparisonText(<<"close">>, ">",
                                        <<"sma", "(", "close", ",", "20", ")">>))
    \o SectionText("EXIT", ComparisonText(<<"close">>, "<",
                                          <<"sma", "(", "close", ",", "20", ")">>))

\* the sections of a strategy in every order and number, and no section
SectionOrders ==
    {<<>>, <<"ENTRY">>, <<"EXIT">>, <<"ENTRY", "EXIT">>, <<"EXIT", "ENTRY">>,
     <<"ENTRY", "ENTRY">>, <<"EXIT", "EXIT">>, <<"ENTRY", "EXIT", "ENTRY">>}

RECURSIVE SectionsText(_)
SectionsText(names) ==
    IF names = <<>> THEN <<>>
    ELSE SectionText(Head(names), RuleA) \o SectionsText(Tail(names))

\* text with the word at position k removed / with word w put before it
Without(text, k) == SubSeq(text, 1, k - 1) \o SubSeq(text, k + 1, Len(text))
WithWord(text, k, w) == SubSeq(text, 1, k - 1) \o <<w>> \o SubSeq(text, k, Len(text))

IsRuleListText(text) ==
    \E n \in 1..MaxRules : \E r \in [1..n -> RuleTexts] :
        \E b \in [1..(n - 1) -> BooleanWords] :
            \E name \in {"ENTRY", "EXIT"} :
                text \in {SectionText(name, RuleListText(n, r, b)),
                          SectionText(name, GroupedRuleListText(n, r, b))}

IsBrokenText(text) ==
    \/ \E names \in SectionOrders : text \in {SectionsText(names), RuleA}
    \/ \E k \in 1..Len(ScenarioA) :
          \/ text = Without(ScenarioA, k)
          \/ \E w \in JunkWords \cup DoubleWords \cup {"(", "AND", "close"} :
                text = WithWord(ScenarioA, k, w)

InitParser ==
    /\ \/ dsl_text \in OneRuleTexts
       \/ IsRuleListText(dsl_text)
       \/ IsBrokenText(dsl_text)
    /\ ast = <<>> /\ cross_a = <<>> /\ cross_b = <<>>
    /\ initial_capital = 0
    /\ df = <<>>
    /\ signals = [len |-> 0, col |-> <<>>]
    /\ entry_price_col = "close"
    /\ exit_price_col = "close"
    /\ pc = "call"
    /\ i = 0
    /\ position = None
    /\ trades = <<>>
    /\ opens = 0
    /\ result = None
    /\ error = ""

run_vars ==
    <<initial_capital, df, signals, entry_price_col, exit_price_col, i,
      position, trades, opens>>

\* a caller runs parser.parse(dsl_text)
parse_call ==
    /\ pc = "call"
    /\ LET res == parse(dsl_text)
       IN  IF res.ok
           THEN /\ ast' = res.ast
                /\ pc' = "parsed"
                /\ error' = error
           ELSE /\ ast' = ast
                /\ pc' = "error"
                /\ error' = res.error
    /\ UNCHANGED <<run_vars, dsl_text, cross_a, cross_b, result>>

\* a caller runs parser.validate(dsl_text)
validate_call ==
    /\ pc = "call"
    /\ result' = <<validate(dsl_text)>>
    /\ pc' = "validated"
    /\ UNCHANGED <<run_vars, dsl_text, ast, cross_a, cross_b, error>>

NextParser == parse_call \/ validate_call

SpecParser == InitParser /\ [][NextParser]_vars

(* ------------------------ claims about the parser --------------------- *)
EntryNode == ast["entry"][1]
ExitNode == ast["exit"][1]

IsBinaryOp(node, o) == node.type = "binary_op" /\ node.operator = o

SmaClose20 ==
    [type |-> "indicator", name |-> "sma", series |-> "close",
     period |-> Number(R(20))]

CloseSeries == [type |-> "series", value |-> "close"]

(* C14: for every comparison `e1 op e2` of the text, op one of the eight
   operators, parse yields a binary_op node whose operator is the one
   written; for Scenario A the entry is binary_op(">", series close,
   indicator sma close 20) and the exit the same with "<". *)
C14_OperatorAsWritten ==
    pc = "parsed"
      => /\ \A l \in Operands, r \in Operands, o \in Operators :
              LET entry == SectionText("ENTRY", ComparisonText(l, o, r))
              IN  /\ dsl_text = entry => IsBinaryOp(EntryNode, o)
                  /\ \A o2 \in Operators :
                       dsl_text = entry \o SectionText("EXIT", ComparisonText(l, o2, r))
                         => IsBinaryOp(EntryNode, o) /\ IsBinaryOp(ExitNode, o2)
         /\ dsl_text = ScenarioA
              => /\ EntryNode = [type |-> "binary_op", operator |-> ">",
                                 left |-> CloseSeries, right |-> SmaClose20]
                 /\ ExitNode = [type |-> "binary_op", operator |-> "<",
                                left |-> CloseSeries, right |-> SmaClose20]

\* the node a rule text parses to when it stands alone
RuleNode(text) == parse(SectionText("ENTRY", text)).ast["entry"][1]

\* the left-associative chain of the first n rules r with the operators b
RECURSIVE Chain(_, _, _)
Chain(n, r, b) ==
    IF n = 1 THEN RuleNode(r[1])
    ELSE [type |-> "boolean_op", operator |-> b[n - 1],
          left |-> Chain(n - 1, r, b), right |-> RuleNode(r[n])]

(* C15: a rule list r1 b1 r2 b2 r3 ... parses to the left-associative chain
   of boolean_op nodes whose operators are the b's written: A AND B OR C
   gives boolean_op(OR, boolean_op(AND, A, B), C); a single rule gives the
   rule's node, with no boolean_op around it. *)
C15_LeftAssociativeChain ==
    pc = "parsed"
      => \A n \in 1..MaxRules : \A r \in [1..n -> RuleTexts] :
           \A b \in [1..(n - 1) -> BooleanWords] :
              /\ dsl_text = SectionText("ENTRY", RuleListText(n, r, b))
                   => EntryNode = Chain(n, r, b)
              /\ dsl_text = SectionText("EXIT", RuleListText(n, r, b))
                   => ExitNode = Chain(n, r, b)

\* the texts of InitParser that the grammar derives, by their construction
Derivable(text) ==
    \/ \E l \in Operands, r \in Operands, o \in Operators :
          LET entry == SectionText("ENTRY", ComparisonText(l, o, r))
          IN  \/ text = entry
              \/ \E o2 \in Operators :
                    text = entry \o SectionText("EXIT", ComparisonText(l, o2, r))
    \/ IsRuleListText(text)
    \/ text \in {SectionsText(<<"ENTRY">>), SectionsText(<<"EXIT">>),
                 SectionsText(<<"ENTRY", "EXIT">>)}

(* C16: parse fails with the parse error (a ValueError) and returns no AST
   exactly on the texts the grammar does not derive, among them
   `ENTRY: close >> 5`, an EXIT section before an ENTRY section and a text
   with neither section; validate returns False exactly for those texts. *)
C16_MalformedRejected ==
    /\ pc = "parsed" => Derivable(dsl_text) /\ error = ""
    /\ pc = "error" => ~Derivable(dsl_text) /\ error = "ValueError" /\ ast = <<>>
    /\ pc = "validated" => result = <<Derivable(dsl_text)>>

\* parse has failed on `ENTRY: close >> 5`
C16_Witness ==
    /\ pc = "error" /\ error = "ValueError"
    /\ dsl_text = <<"ENTRY", ":", "close", ">>", "5">>


(* ====================================================================== *)
(* The indicators of src/src/indicators.py.                               *)
(*                                                                        *)
(* A pandas Series is the sequence of its cells; the index is 1..Len.     *)
(* A numeric cell is an exact rational or NaN; the cells of a comparison  *)
(* are booleans.  A comparison with NaN on either side is False, except   *)
(* `!=`, which is True (IEEE 754, as numpy and pandas compute it).        *)
(* ====================================================================== *)
MaxLen == 3
MaxValue == 2

NaN == <<0, 0>>
IsNaN(x) == x[2] = 0

\* x - y, x / y, x * y on cells
NSub(x, y) == IF IsNaN(x) \/ IsNaN(y) THEN NaN ELSE RSub(x, y)
NMul(x, y) == IF IsNaN(x) \/ IsNaN(y) THEN NaN ELSE RMul(x, y)
NDiv(x, y) == IF IsNaN(x) \/ IsNaN(y) \/ y[1] = 0 THEN NaN ELSE RDiv(x, y)

\* x op y on cells
Compare(op, x, y) ==
    IF IsNaN(x) \/ IsNaN(y) THEN op = "!="
    ELSE CASE op = ">" -> RGt(x, y)
           [] op = "<" -> RLt(x, y)
           [] op = ">=" -> ~RLt(x, y)
           [] op = "<=" -> ~RGt(x, y)
           [] op = "==" -> x = y
           [] op = "!=" -> x # y

\* s1 op s2, cell by cell
CompareSeries(op, s1, s2) == [k \in 1..Len(s1) |-> Compare(op, s1[k], s2[k])]

\* s1 & s2, s1 | s2 on boolean series
AndSeries(s1, s2) == [k \in 1..Len(s1) |-> s1[k] /\ s2[k]]
OrSeries(s1, s2) == [k \in 1..Len(s1) |-> s1[k] \/ s2[k]]

\* pd.Series(value, index=index)
ConstantSeries(value, len) == [k \in 1..len |-> value]

\* series.shift(n)
Shift(s, n) == [k \in 1..Len(s) |-> IF k - n \in 1..Len(s) THEN s[k - n] ELSE NaN]

\* the cells of s at positions from..to that are not NaN
RECURSIVE ValidCells(_, _, _)
ValidCells(s, from, to) ==
    IF from > to THEN <<>>
    ELSE (IF IsNaN(s[from]) THEN <<>> ELSE <<s[from]>>) \o ValidCells(s, from + 1, to)

\* series.rolling(window=period, min_periods=1).mean()
RollingMean(s, period) ==
    [k \in 1..Len(s) |->
        LET cells == ValidCells(s, IF k - period + 1 < 1 THEN 1 ELSE k - period + 1, k)
        IN  IF cells = <<>> THEN NaN ELSE Mean(cells)]

sma(s, period) == RollingMean(s, period)

\* series.ewm(span=period, adjust=False).mean() at position k
RECURSIVE EwmAt(_, _, _)
EwmAt(s, period, k) ==
    LET alpha == Rat(2, period + 1)
    IN  IF k = 1 THEN s[1]
        ELSE RAdd(RMul(RSub(R(1), alpha), EwmAt(s, period, k - 1)),
                  RMul(alpha, s[k]))

ema(s, period) == [k \in 1..Len(s) |-> EwmAt(s, period, k)]

\* variant: the undefined values are filled with 0, not with 50
rsi_fill_zero(s, period) ==
    LET delta == [k \in 1..Len(s) |-> NSub(s[k], Shift(s, 1)[k])]
        up == [k \in 1..Len(s) |->
                 IF Compare(">", delta[k], Zero) THEN delta[k] ELSE Zero]
        down == [k \in 1..Len(s) |->
                   IF Compare("<", delta[k], Zero) THEN RNeg(delta[k]) ELSE Zero]
        gain == RollingMean(up, period)
        loss == RollingMean(down, period)
    IN  [k \in 1..Len(s) |->
           IF loss[k] = Zero
           THEN (IF gain[k] = Zero THEN Zero ELSE R(100))
           ELSE RSub(R(100), RDiv(R(100), RAdd(R(1), RDiv(gain[k], loss[k]))))]

\* rsi: gains and losses of series.diff(), their rolling means, and
\* 100 - 100 / (1 + gain / loss) with 0/0 filled by 50 and x/0 = inf
rsi(s, period) ==
    LET delta == [k \in 1..Len(s) |-> NSub(s[k], Shift(s, 1)[k])]
        up == [k \in 1..Len(s) |->
                 IF Compare(">", delta[k], Zero) THEN delta[k] ELSE Zero]
        down == [k \in 1..Len(s) |->
                   IF Compare("<", delta[k], Zero) THEN RNeg(delta[k]) ELSE Zero]
        gain == RollingMean(up, period)
        loss == RollingMean(down, period)
    IN  [k \in 1..Len(s) |->
           IF loss[k] = Zero
           THEN (IF gain[k] = Zero THEN R(50) ELSE R(100))
           ELSE RSub(R(100), RDiv(R(100), RAdd(R(1), RDiv(gain[k], loss[k]))))]

yesterday(s) == Shift(s, 1)
last_week(s) == Shift(s, 7)
n_days_ago(s, n) == Shift(s, n)

change(s, n) == [k \in 1..Len(s) |-> NSub(s[k], Shift(s, n)[k])]

percent_change(s, n) ==
    [k \in 1..Len(s) |->
        NMul(NDiv(NSub(s[k], Shift(s, n)[k]), Shift(s, n)[k]), R(100))]

\* the second argument of crosses_above / crosses_below: a number or a Series
Scalar(v) == [scalar |-> TRUE, value |-> v]
SeriesOperand(s) == [scalar |-> FALSE, value |-> s]

\* lines 142-143 and 166-167: a number becomes a constant series
AsSeries(series2, len) ==
    IF series2.scalar THEN ConstantSeries(series2.value, len) ELSE series2.value

\* variant: the previous period is compared with <, not <=
crosses_above_strict(series1, series2) ==
    LET s2 == AsSeries(series2, Len(series1))
    IN  AndSeries(CompareSeries(">", series1, s2),
                  CompareSeries("<", Shift(series1, 1), Shift(s2, 1)))

crosses_above(series1, series2) ==
    LET s2 == AsSeries(series2, Len(series1))
        current_above == CompareSeries(">", series1, s2)
        prev_below == CompareSeries("<=", Shift(series1, 1), Shift(s2, 1))
    IN  AndSeries(current_above, prev_below)

\* variant: the current period is compared as in crosses_above
crosses_below_current_above(series1, series2) ==
    LET s2 == AsSeries(series2, Len(series1))
    IN  AndSeries(CompareSeries(">", series1, s2),
                  CompareSeries(">=", Shift(series1, 1), Shift(s2, 1)))

crosses_below(series1, series2) ==
    LET s2 == AsSeries(series2, Len(series1))
        current_below == CompareSeries("<", series1, s2)
        prev_above == CompareSeries(">=", Shift(series1, 1), Shift(s2, 1))
    IN  AndSeries(current_below, prev_above)

(* -------- crosses_above / crosses_below on pairs of series ------------ *)
SeriesValues == {R(v) : v \in 1..MaxValue}

InitCross ==
    /\ \E n \in 0..MaxLen :
          /\ cross_a \in [1..n -> SeriesValues]
          /\ \/ \E s \in [1..n -> SeriesValues] : cross_b = SeriesOperand(s)
             \/ \E v \in SeriesValues : cross_b = Scalar(v)
    /\ dsl_text = <<>> /\ ast = <<>>
    /\ initial_capital = 0
    /\ df = <<>>
    /\ signals = [len |-> 0, col |-> <<>>]
    /\ entry_price_col = "close"
    /\ exit_price_col = "close"
    /\ pc = "call"
    /\ i = 0
    /\ position = None
    /\ trades = <<>>
    /\ opens = 0
    /\ result = None
    /\ error = ""

crosses_above_call ==
    /\ pc = "call"
    /\ result' = <<crosses_above(cross_a, cross_b)>>
    /\ pc' = "above"
    /\ UNCHANGED <<run_vars, dsl_vars, error>>

crosses_below_call ==
    /\ pc = "call"
    /\ result' = <<crosses_below(cross_a, cross_b)>>
    /\ pc' = "below"
    /\ UNCHANGED <<run_vars, dsl_vars, error>>

NextCross == crosses_above_call \/ crosses_below_call

SpecCross == InitCross /\ [][NextCross]_vars

(* ------------- claims about crosses_above / crosses_below ------------- *)
\* cross_b at position k, a number standing for the constant series
Second(k) == IF cross_b.scalar THEN cross_b.value ELSE cross_b.value[k]

Crossed == result[1]

(* C19: crosses_above(a, b) is true at i exactly when a[i] > b[i] and
   a[i-1] <= b[i-1], crosses_below(a, b) exactly when a[i] < b[i] and
   a[i-1] >= b[i-1]; a scalar b stands for the constant series; at the first
   index, which has no previous element, both are false. *)
C19_CrossDefinition ==
    /\ pc = "above"
         => /\ Len(Crossed) = Len(cross_a)
            /\ \A k \in 1..Len(cross_a) :
                 Crossed[k] <=> /\ k > 1
                                /\ RGt(cross_a[k], Second(k))
                                /\ ~RGt(cross_a[k - 1], Second(k - 1))
    /\ pc = "below"
         => /\ Len(Crossed) = Len(cross_a)
            /\ \A k \in 1..Len(cross_a) :
                 Crossed[k] <=> /\ k > 1
                                /\ RLt(cross_a[k], Second(k))
                                /\ ~RLt(cross_a[k - 1], Second(k - 1))

\* crosses_above against a scalar: a touches b, then rises above it
C19_Witness ==
    /\ pc = "above" /\ cross_b.scalar /\ Len(cross_a) = 3
    /\ cross_a[1] = cross_b.value /\ RGt(cross_a[2], cross_b.value)
    /\ RGt(cross_a[3], cross_b.value)
    /\ Crossed = <<FALSE, TRUE, FALSE>>

(* C20: for series a and b of the same length, crosses_above(a, b) and
   crosses_below(a, b) are never both true at the same index. *)
C20_CrossExclusive ==
    pc \in {"above", "below"}
      => \A k \in 1..Len(cross_a) :
           ~(crosses_above(cross_a, cross_b)[k] /\ crosses_below(cross_a, cross_b)[k])

\* a is above b after the two were equal: above fires, below does not
C20_Witness ==
    /\ pc = "below" /\ ~cross_b.scalar /\ Len(cross_a) >= 2
    /\ cross_a[1] = cross_b.value[1]
    /\ RGt(cross_a[2], cross_b.value[2])
    /\ crosses_above(cross_a, cross_b)[2] /\ ~Crossed[2]


(* ====================================================================== *)
(* The strategy evaluator of src/src/code_generator.py.                   *)
(*                                                                        *)
(* generate(ast) returns evaluate_strategy, which is run on a bar table.  *)
(* The AST is a dict with the keys "entry" and "exit", each optional and  *)
(* holding a list of nodes; a node is a dict with a "type", or a number.  *)
(* The bar table is df of the backtest: rows with the column "close".     *)
(* ====================================================================== *)
\* df[name]
Column(bars, name) == [k \in 1..Len(bars) |-> bars[k][name]]

\* a Python int held in a number node
IntOf(num) == num.number[1]

\* a Python str given as an expression
Literal(w) == [type |-> "str", value |-> w]

TimeFunctions == {"yesterday", "last_week", "n_days_ago"}
ChangeFunctions == {"change", "percent_change"}

\* the expressions whose evaluation raises ValueError
RECURSIVE Raises(_)
Raises(expr) ==
    CASE expr.type = "series" -> expr.value \notin Columns
      [] expr.type = "indicator" ->
           expr.series \notin Columns \/ expr.name \notin IndicatorNames
      [] expr.type = "function_call" ->
           IF expr.name \in TimeFunctions \cup ChangeFunctions
           THEN Len(expr.args) < 1 \/ Raises(expr.args[1])
           ELSE IF expr.name \in CrossNames
           THEN Len(expr.args) < 2 \/ Raises(expr.args[1]) \/ Raises(expr.args[2])
           ELSE TRUE
      [] expr.type = "binary_op" ->
           Raises(expr.left) \/ Raises(expr.right) \/ expr.operator \notin Operators
      [] expr.type = "boolean_op" ->
           Raises(expr.left) \/ Raises(expr.right) \/ expr.operator \notin BooleanWords
      [] expr.type = "number" -> FALSE
      [] expr.type = "str" ->
           expr.value \notin Columns /\ expr.value \notin Numerals
      [] OTHER -> TRUE

RECURSIVE evaluate_expression(_, _)

evaluate_indicator(node, bars) ==
    LET s == Column(bars, node.series)
        period == IntOf(node.period)
    IN  CASE node.name = "sma" -> sma(s, period)
          [] node.name = "rsi" -> rsi(s, period)
          [] node.name = "ema" -> ema(s, period)

evaluate_function_call(node, bars) ==
    LET args == node.args
        n == IF Len(args) > 1 THEN IntOf(args[2]) ELSE 1
    IN  CASE node.name = "yesterday" -> yesterday(evaluate_expression(args[1], bars))
          [] node.name = "last_week" -> last_week(evaluate_expression(args[1], bars))
          [] node.name = "n_days_ago" -> n_days_ago(evaluate_expression(args[1], bars), n)
          [] node.name = "change" -> change(evaluate_expression(args[1], bars), n)
          [] node.name = "percent_change" ->
               percent_change(evaluate_expression(args[1], bars), n)
          [] node.name = "crosses_above" ->
               crosses_above(evaluate_expression(args[1], bars),
                             SeriesOperand(evaluate_expression(args[2], bars)))
          [] node.name = "crosses_below" ->
               crosses_below(evaluate_expression(args[1], bars),
                             SeriesOperand(evaluate_expression(args[2], bars)))

evaluate_binary_op(node, bars) ==
    LET left == evaluate_expression(node.left, bars)
        right == evaluate_expression(node.right, bars)
    IN  CASE node.operator = "crosses_above" -> crosses_above(left, SeriesOperand(right))
          [] node.operator = "crosses_below" -> crosses_below(left, SeriesOperand(right))
          [] OTHER -> CompareSeries(node.operator, left, right)

evaluate_boolean_op(node, bars) ==
    LET left == evaluate_expression(node.left, bars)
        right == evaluate_expression(node.right, bars)
    IN  IF node.operator = "AND" THEN AndSeries(left, right)
        ELSE OrSeries(left, right)

evaluate_expression(expr, bars) ==
    CASE expr.type = "series" -> Column(bars, expr.value)
      [] expr.type = "indicator" -> evaluate_indicator(expr, bars)
      [] expr.type = "function_call" -> evaluate_function_call(expr, bars)
      [] expr.type = "binary_op" -> evaluate_binary_op(expr, bars)
      [] expr.type = "boolean_op" -> evaluate_boolean_op(expr, bars)
      [] expr.type = "number" -> ConstantSeries(expr.number, Len(bars))
      [] expr.type = "str" ->
           IF expr.value \in Columns THEN Column(bars, expr.value)
           ELSE ConstantSeries(NumeralValue(expr.value), Len(bars))

\* series.fillna(False) on a boolean series
FillnaFalse(s) == [k \in 1..Len(s) |-> s[k] = TRUE]

\* variant: the conditions of one side are or-ed
RECURSIVE CombineConditionsOr(_, _, _)
CombineConditionsOr(conditions, n, bars) ==
    IF n = 1 THEN evaluate_expression(conditions[1], bars)
    ELSE OrSeries(CombineConditionsOr(conditions, n - 1, bars),
                  evaluate_expression(conditions[n], bars))

\* the loop over the conditions of one side: the first n results, and-ed
RECURSIVE CombineConditions(_, _, _)
CombineConditions(conditions, n, bars) ==
    IF n = 1 THEN evaluate_expression(conditions[1], bars)
    ELSE AndSeries(CombineConditions(conditions, n - 1, bars),
                   evaluate_expression(conditions[n], bars))

\* `side in ast and ast[side]`
HasRules(tree, side) == side \in DOMAIN tree /\ tree[side] # <<>>

\* variant: a side without rules signals on every row
SideSignalsDefaultTrue(tree, side, bars) ==
    IF HasRules(tree, side)
    THEN FillnaFalse(CombineConditions(tree[side], Len(tree[side]), bars))
    ELSE ConstantSeries(TRUE, Len(bars))

\* signals[side]: False, replaced by the combined conditions if there are any
SideSignals(tree, side, bars) ==
    IF HasRules(tree, side)
    THEN FillnaFalse(CombineConditions(tree[side], Len(tree[side]), bars))
    ELSE ConstantSeries(FALSE, Len(bars))

StrategyRaises(tree) ==
    \E side \in {"entry", "exit"} :
        HasRules(tree, side) /\ \E k \in 1..Len(tree[side]) : Raises(tree[side][k])

\* the signal table: index of df, columns entry and exit
evaluate_strategy(tree, bars) ==
    [len |-> Len(bars),
     col |-> [side \in {"entry", "exit"} |-> SideSignals(tree, side, bars)]]

(* ------------- strategies and bar tables given to the evaluator ------- *)
FunctionCall(name, args) == [type |-> "function_call", name |-> name, args |-> args]

BinaryOp(o, l, r) == [type |-> "binary_op", operator |-> o, left |-> l, right |-> r]

ShiftedOperands ==
    {FunctionCall("yesterday", <<CloseSeries>>),
     FunctionCall("last_week", <<CloseSeries>>),
     FunctionCall("n_days_ago", <<CloseSeries, Number(R(2))>>),
     FunctionCall("change", <<CloseSeries, Number(R(1))>>),
     FunctionCall("percent_change", <<CloseSeries, Number(R(2))>>)}

LeftOperands ==
    ShiftedOperands
    \cup {CloseSeries, [type |-> "series", value |-> "volume"],
          [type |-> "indicator", name |-> "sma", series |-> "close",
           period |-> Number(R(2))]}

RightOperands ==
    {CloseSeries, Number(R(1)), FunctionCall("yesterday", <<CloseSeries>>)}

\* function calls with fewer or more arguments than the grammar gives them
ArityOperands ==
    {FunctionCall("yesterday", <<>>),
     FunctionCall("last_week", <<>>),
     FunctionCall("yesterday", <<CloseSeries, Number(R(1))>>),
     FunctionCall("n_days_ago", <<>>),
     FunctionCall("n_days_ago", <<CloseSeries>>),
     FunctionCall("n_days_ago", <<CloseSeries, Number(R(1)), Number(R(2))>>),
     FunctionCall("change", <<CloseSeries>>)}

\* operands that name nothing the evaluator knows, and string operands
UnknownOperands ==
    {[type |-> "indicator", name |-> "macd", series |-> "close",
      period |-> Number(R(2))],
     [type |-> "indicator", name |-> "sma", series |-> "volume",
      period |-> Number(R(2))],
     FunctionCall("tomorrow", <<CloseSeries>>),
     [type |-> "constant"],
     Literal("abc"), Literal("close"), Literal("1.5")}

CrossCalls ==
    {FunctionCall(f, args) :
        f \in CrossNames,
        args \in {<<CloseSeries>>,
                  <<CloseSeries, Number(R(1))>>,
                  <<CloseSeries, Number(R(1)), CloseSeries>>}}

UnknownOperatorConditions ==
    {BinaryOp("=>", CloseSeries, Number(R(1))),
     [type |-> "boolean_op", operator |-> "XOR",
      left |-> BinaryOp(">", CloseSeries, Number(R(1))),
      right |-> BinaryOp("<", CloseSeries, Number(R(2)))]}

Conditions ==
    {BinaryOp(o, l, r) : o \in Operators, l \in LeftOperands, r \in RightOperands}
    \cup {BinaryOp(">", l, Number(R(1))) : l \in ArityOperands \cup UnknownOperands}
    \cup CrossCalls \cup UnknownOperatorConditions

\* close > 1
AboveOne == BinaryOp(">", CloseSeries, Number(R(1)))

\* the strategies built around one condition c
StrategiesOf(c) ==
    {EmptyDict,
     "entry" :> <<c>>,
     "exit" :> <<c>>,
     ("entry" :> <<c>>) @@ ("exit" :> <<>>),
     ("entry" :> <<>>) @@ ("exit" :> <<c>>),
     ("entry" :> <<>>) @@ ("exit" :> <<>>),
     ("entry" :> <<c>>) @@ ("exit" :> <<AboveOne>>),
     ("entry" :> <<AboveOne>>) @@ ("exit" :> <<c>>),
     ("entry" :> <<AboveOne, c>>) @@ ("exit" :> <<c>>),
     "entry" :> <<[type |-> "boolean_op", operator |-> "OR",
                   left |-> c, right |-> AboveOne]>>}

InitEval ==
    /\ df \in BarTables
    /\ \E c \in Conditions : ast \in StrategiesOf(c)
    /\ dsl_text = <<>> /\ cross_a = <<>> /\ cross_b = <<>>
    /\ initial_capital = 0
    /\ signals = [len |-> 0, col |-> <<>>]
    /\ entry_price_col = "close"
    /\ exit_price_col = "close"
    /\ pc = "call"
    /\ i = 0
    /\ position = None
    /\ trades = <<>>
    /\ opens = 0
    /\ result = None
    /\ error = ""

\* the sides whose conditions raise
SideRaises(tree, side) ==
    HasRules(tree, side) /\ \E k \in 1..Len(tree[side]) : Raises(tree[side][k])

\* variant: a side that raises is left False and the table is returned
evaluate_strategy_call_partial ==
    /\ pc = "call"
    /\ pc' = "evaluated"
    /\ error' = error
    /\ signals' =
          [len |-> Len(df),
           col |-> [side \in {"entry", "exit"} |->
                      IF SideRaises(ast, side) THEN ConstantSeries(FALSE, Len(df))
                      ELSE SideSignals(ast, side, df)]]
    /\ UNCHANGED <<initial_capital, df, entry_price_col, exit_price_col, i,
                   position, trades, opens, result, dsl_vars>>

\* a caller runs generate(ast)(df), on an AST of its own or on a parsed one
evaluate_strategy_call ==
    /\ (pc = "call" /\ dsl_text = <<>>) \/ pc = "parsed"
    /\ IF StrategyRaises(ast)
       THEN /\ pc' = "error"
            /\ error' = "ValueError"
            /\ signals' = signals
       ELSE /\ pc' = "evaluated"
            /\ error' = error
            /\ signals' = evaluate_strategy(ast, df)
    /\ UNCHANGED <<initial_capital, df, entry_price_col, exit_price_col, i,
                   position, trades, opens, result, dsl_vars>>

NextEval == evaluate_strategy_call

SpecEval == InitEval /\ [][NextEval]_vars

(* ----------------------- claims about the evaluator ------------------- *)
NoRules(side) == side \notin DOMAIN ast \/ ast[side] = <<>>

(* C17: the signal table has one row per bar, on the index of the bar
   table, and the two columns entry and exit; a side of the strategy that
   is absent or empty gives a column that is false on every row, whatever
   the other side is; every cell is a boolean. *)
C17_SignalTable ==
    pc = "evaluated"
      => /\ signals.len = Len(df)
         /\ DOMAIN signals.col = {"entry", "exit"}
         /\ \A side \in {"entry", "exit"} :
              /\ DOMAIN signals.col[side] = 1..Len(df)
              /\ \A k \in 1..Len(df) : signals.col[side][k] \in BOOLEAN
              /\ NoRules(side) => \A k \in 1..Len(df) : ~signals.col[side][k]

\* a strategy without an entry side whose exit rule holds on some row
C17_Witness ==
    /\ pc = "evaluated" /\ Len(df) >= 2
    /\ "entry" \notin DOMAIN ast /\ "exit" \in DOMAIN ast
    /\ \E k \in 1..Len(df) : signals.col["exit"][k]
    /\ \A k \in 1..Len(df) : ~signals.col["entry"][k]

IsShifted(node) ==
    node.type = "function_call" /\ node.name \in TimeFunctions \cup ChangeFunctions

\* the number of leading rows on which a shifted operand is undefined
ShiftOffset(node) ==
    CASE node.name = "yesterday" -> 1
      [] node.name = "last_week" -> 7
      [] OTHER -> IF Len(node.args) > 1 THEN IntOf(node.args[2]) ELSE 1

FalseWhileUndefined(side, operand) ==
    IsShifted(operand)
      => \A k \in 1..Len(df) : k <= ShiftOffset(operand) => ~signals.col[side][k]

(* C18: a comparison, with any of the eight operators, one of whose
   operands is yesterday, last_week, n_days_ago, change or percent_change
   of a series is false on every row before the shift offset, where the
   shifted value is undefined. *)
C18_UndefinedComparesFalse ==
    pc = "evaluated"
      => \A side \in DOMAIN ast :
           (Len(ast[side]) = 1 /\ ast[side][1].type = "binary_op")
             => /\ FalseWhileUndefined(side, ast[side][1].left)
                /\ FalseWhileUndefined(side, ast[side][1].right)


(* ================= further claims about the run ====================== *)
(* C25: while a position is open, a row whose entry signal is true and whose
   exit signal is false changes nothing: the position, the trades and the
   number of positions opened are as before; the trade that eventually closes
   the position carries the entry date and entry price the position was
   opened with. *)
C25_EntryIgnoredWhileOpen ==
    [][/\ (RowStep /\ position # None
             /\ Signal("entry", i') /\ ~Signal("exit", i'))
          => (position' = position /\ trades' = trades /\ opens' = opens)
       /\ (pc = "loop" /\ position # None /\ Len(trades') = Len(trades) + 1)
          => /\ trades'[Len(trades')].entry_date = position[1].entry_date
             /\ trades'[Len(trades')].entry_price = position[1].entry_price
             /\ trades'[Len(trades')].entry_price
                  = df[position[1].entry_date][entry_price_col]]_vars

\* a trade closed by an exit signal, with an ignored entry signal at a row
\* between its entry and its exit
C25_Witness ==
    /\ pc = "done" /\ trades # <<>>
    /\ \E j \in (trades[1].entry_date + 1)..(trades[1].exit_date - 1) :
          Signal("entry", j) /\ ~Signal("exit", j)
    /\ Signal("exit", trades[1].exit_date)

\* the rows of df whose entry signal is true
EntryRows ==
    {idx \in 1..Len(df) : idx <= signals.len /\ Signal("entry", idx)}

(* C26: the trades of a run have pairwise distinct entry dates, each of them
   a row whose entry signal is true, so the number of trades is at most the
   number of rows with a true entry signal, and at most the number of rows;
   the result reports that number. *)
C26_DistinctEntryDates ==
    /\ \A j, k \in 1..Len(trades) :
          j # k => trades[j].entry_date # trades[k].entry_date
    /\ \A k \in 1..Len(trades) : trades[k].entry_date \in EntryRows
    /\ Len(trades) <= Cardinality(EntryRows)
    /\ Cardinality(EntryRows) <= Len(df)
    /\ pc = "done" => Res.num_trades = Len(trades)

\* a finished run with two trades and more entry signals than trades
C26_Witness ==
    /\ pc = "done" /\ Len(trades) = 2
    /\ Cardinality(EntryRows) > Len(trades)

\* trade k was closed by the forced liquidation after the loop
Forced(k) == pc = "done" /\ position # None /\ k = Len(trades)

\* what C27 says of the trades of one state
SameDayOnlyForced ==
    \A k \in 1..Len(trades) :
        LET t == trades[k]
        IN  /\ t.exit_date = t.entry_date
               => /\ Forced(k)
                  /\ t.entry_date = Len(df)
                  /\ entry_price_col = exit_price_col => t.pnl = Zero
                  /\ k \notin WinningTrades(trades)
            /\ ~Forced(k)
               => t.exit_date > t.entry_date /\ Signal("exit", t.exit_date)

(* C27: a trade whose exit date equals its entry date can only be the
   forced-liquidation trade of a position opened on the last row (its pnl is
   0 when the two price columns are the same, and it is not a winning trade);
   every trade closed by an exit signal has an exit date strictly later than
   its entry date; the forced liquidation appends at most one trade, at the
   end of the list, and no row appends a same-day trade. *)
C27_SameDayTrade ==
    [][/\ SameDayOnlyForced'
       /\ (pc = "loop" /\ pc' = "done")
          => /\ Len(trades') <= Len(trades) + 1
             /\ SubSeq(trades', 1, Len(trades)) = trades
             /\ Len(trades') = Len(trades) + 1 <=> position # None
       /\ (RowStep /\ trades' # trades)
          => trades'[Len(trades')].exit_date
               > trades'[Len(trades')].entry_date]_vars

\* a run that ended by liquidating, on the last row, a position opened on
\* that row, after a trade closed by an exit signal
C27_Witness ==
    /\ pc = "done" /\ position # None /\ Len(trades) = 2
    /\ trades[2].exit_date = trades[2].entry_date
    /\ trades[1].exit_date > trades[1].entry_date


(* C28: the running peak of the drawdown starts at the equity after the first
   trade, not at the initial capital: the metrics of one trade report
   max_drawdown = 0 and max_drawdown_pct = 0 even when that trade lost money,
   and a loss of the first trade measured against the initial capital adds
   nothing: when no later trade loses, both are 0 whatever the first trade
   did, and max_drawdown never exceeds the fall from the first equity. *)
C28_PeakStartsAtFirstEquity ==
    (pc = "done" /\ trades # <<>>)
      => /\ Len(trades) = 1
            => Res.max_drawdown = Zero /\ Res.max_drawdown_pct = Zero
         /\ (\A k \in 2..Len(trades) : ~RLt(trades[k].return_pct, Zero))
            => Res.max_drawdown = Zero /\ Res.max_drawdown_pct = Zero
         /\ \A k \in 1..Len(trades) :
               (\A j \in 1..k : ~RGt(EquityAfter(j), EquityAfter(1)))
                  => ~RGt(RSub(EquityAfter(1), EquityAfter(k)), Res.max_drawdown)

\* the metrics of one losing trade, and of a losing trade followed by a
\* winning one: the equity stayed under the initial capital, the drawdown is 0
C28_Witness ==
    /\ pc = "done" /\ Len(trades) \in {1, 2}
    /\ RLt(trades[1].return_pct, Zero)
    /\ RLt(EquityAfter(Len(trades)), R(initial_capital))
    /\ Res.max_drawdown = Zero /\ Res.max_drawdown_pct = Zero


(* ---------------------- rsi on a series and a period ------------------ *)
MaxRsiLen == 4
MaxPeriod == 3

\* the cells of the series: numbers and the undefined value
RsiCells == SeriesValues \cup {NaN}

\* cross_a holds the series argument
InitRsi ==
    /\ \E n \in 0..MaxRsiLen : cross_a \in [1..n -> RsiCells]
    /\ cross_b = <<>>
    /\ dsl_text = <<>> /\ ast = <<>>
    /\ initial_capital = 0
    /\ df = <<>>
    /\ signals = [len |-> 0, col |-> <<>>]
    /\ entry_price_col = "close"
    /\ exit_price_col = "close"
    /\ pc = "call"
    /\ i = 0
    /\ position = None
    /\ trades = <<>>
    /\ opens = 0
    /\ result = None
    /\ error = ""

\* rsi(series, period) for some period >= 1; the result keeps the period
rsi_call ==
    /\ pc = "call"
    /\ \E period \in 1..MaxPeriod :
          result' = <<[period |-> period, values |-> rsi(cross_a, period)]>>
    /\ pc' = "rsi"
    /\ UNCHANGED <<run_vars, dsl_vars, error>>

NextRsi == rsi_call

SpecRsi == InitRsi /\ [][NextRsi]_vars

(* ------------------------- the claim about rsi ------------------------ *)
\* the rows of the window that ends at row k
Window(k, period) == {j \in 1..k : j > k - period}

\* row j rose (fell) from the row before it, both being numbers
Rose(j) ==
    j > 1 /\ ~IsNaN(cross_a[j]) /\ ~IsNaN(cross_a[j - 1])
          /\ RGt(cross_a[j], cross_a[j - 1])
Fell(j) ==
    j > 1 /\ ~IsNaN(cross_a[j]) /\ ~IsNaN(cross_a[j - 1])
          /\ RLt(cross_a[j], cross_a[j - 1])

(* C21: for every period >= 1 and every numeric series, rsi returns a series
   of the same length whose values all lie in [0, 100]; the first value is
   50, and so is every value whose window holds neither a rise nor a fall; a
   window with rises and no falls gives 100, one with falls and no rises
   gives 0, and one with both gives a value strictly between. *)
C21_RsiRange ==
    pc = "rsi"
      => LET values == result[1].values
             period == result[1].period
         IN  /\ Len(values) = Len(cross_a)
             /\ \A k \in 1..Len(values) :
                   LET rises == \E j \in Window(k, period) : Rose(j)
                       falls == \E j \in Window(k, period) : Fell(j)
                   IN  /\ ~IsNaN(values[k])
                       /\ ~RLt(values[k], Zero) /\ ~RGt(values[k], R(100))
                       /\ k = 1 => values[k] = R(50)
                       /\ (~rises /\ ~falls) => values[k] = R(50)
                       /\ (rises /\ ~falls) => values[k] = R(100)
                       /\ (falls /\ ~rises) => values[k] = Zero
                       /\ (rises /\ falls)
                          => RGt(values[k], Zero) /\ RLt(values[k], R(100))

\* one result that holds 50, 100, 0 and a value strictly between
C21_Witness ==
    /\ pc = "rsi" /\ Len(cross_a) = 4 /\ result[1].period = 2
    /\ result[1].values[1] = R(50)
    /\ result[1].values[2] = R(100)
    /\ RGt(result[1].values[3], Zero) /\ RLt(result[1].values[3], R(100))
    /\ result[1].values[4] = Zero


(* ------------------ claims about errors of the evaluator -------------- *)
\* the number of arguments the function of a FunctionCall node takes
WrongArity(node) ==
    /\ node.type = "function_call"
    /\ CASE node.name \in {"yesterday", "last_week"} -> Len(node.args) = 0
         [] node.name = "n_days_ago" -> Len(node.args) # 2
         [] node.name \in CrossNames -> Len(node.args) # 2
         [] OTHER -> FALSE

\* the condition is such a call, or compares one
HasWrongArity(c) ==
    \/ WrongArity(c)
    \/ c.type = "binary_op" /\ (WrongArity(c.left) \/ WrongArity(c.right))

\* the state before any call of evaluate_strategy: no signal table
NoTable == signals = [len |-> 0, col |-> <<>>]

(* C22: evaluating a FunctionCall with a wrong number of arguments fails
   with an error and gives no signal table: yesterday and last_week with no
   argument, n_days_ago with any number of arguments other than 2,
   crosses_above and crosses_below with any number other than 2. *)
C22_ArityErrors ==
    pc \in {"evaluated", "error"}
      => \A side \in DOMAIN ast : \A k \in 1..Len(ast[side]) :
            HasWrongArity(ast[side][k])
              => pc = "error" /\ error = "ValueError" /\ NoTable

\* the semantic errors of C23 in the parts of a node that are evaluated
RECURSIVE SemanticError(_)
SemanticError(node) ==
    CASE node.type = "series" -> node.value # "close"
      [] node.type = "indicator" ->
           node.series # "close" \/ node.name \notin {"sma", "ema", "rsi"}
      [] node.type = "function_call" ->
           \/ node.name \notin TimeFunctions \cup ChangeFunctions \cup CrossNames
           \/ \E j \in 1..Len(node.args) :
                 /\ j <= (IF node.name \in CrossNames THEN 2 ELSE 1)
                 /\ SemanticError(node.args[j])
      [] node.type = "binary_op" ->
           \/ node.operator \notin Operators
           \/ SemanticError(node.left) \/ SemanticError(node.right)
      [] node.type = "boolean_op" ->
           \/ node.operator \notin {"AND", "OR"}
           \/ SemanticError(node.left) \/ SemanticError(node.right)
      [] node.type = "str" -> node.value \notin {"close"} \cup Numerals
      [] OTHER -> FALSE

SideHasError(side) ==
    side \in DOMAIN ast /\ \E k \in 1..Len(ast[side]) : SemanticError(ast[side][k])

(* C23: a semantic error (unknown column, unknown indicator, unknown
   function, unknown comparison or boolean operator, non-numeric string
   literal) met while evaluating the entry or the exit conditions aborts the
   whole call of evaluate_strategy: the call ends with ValueError and returns
   no signal table, not even one with the other side filled in. *)
C23_ErrorAborts ==
    /\ pc = "evaluated" => ~SideHasError("entry") /\ ~SideHasError("exit")
    /\ pc = "error" => error = "ValueError" /\ NoTable

\* the entry side evaluates, the exit side names an unknown column: no table
C23_Witness ==
    /\ pc = "error" /\ Len(df) >= 2 /\ NoTable
    /\ DOMAIN ast = {"entry", "exit"}
    /\ ast["entry"] = <<AboveOne>>
    /\ SideHasError("exit")


(* ====================================================================== *)
(* The DSL generator of src/src/dsl_generator.py, and the pipeline        *)
(* text -> parse -> AST -> generate -> text, AST -> evaluate_strategy.    *)
(*                                                                        *)
(* A generated text is the sequence of the words the lexer splits it      *)
(* into: "ENTRY:" is ENTRY and ":", "sma()" is sma, "(" and ")".  A       *)
(* Python str given as an expression is the record Literal(w).            *)
(* ====================================================================== *)
\* d.get(key, default)
Get(d, key, default) == IF key \in DOMAIN d THEN d[key] ELSE default

\* sep.join(parts), on word sequences
RECURSIVE JoinWords(_, _)
JoinWords(parts, sep) ==
    IF parts = <<>> THEN <<>>
    ELSE IF Len(parts) = 1 THEN parts[1]
    ELSE JoinWords(SubSeq(parts, 1, Len(parts) - 1), sep) \o sep \o parts[Len(parts)]

IsDict(x) == x.type \notin {"number", "str"}

\* the nodes on which _generate_ast_node or _generate_expression raises
\* AttributeError: node.get on an int, a float or a str
RECURSIVE NodeRaises(_)
ExprRaises(expr) == IsDict(expr) /\ NodeRaises(expr)

NodeRaises(node) ==
    IF ~IsDict(node) THEN TRUE
    ELSE CASE node.type = "function_call" ->
                \E k \in 1..Len(Get(node, "args", <<>>)) : ExprRaises(node.args[k])
           [] node.type = "binary_op" ->
                \/ "left" \in DOMAIN node /\ NodeRaises(node.left)
                \/ "right" \in DOMAIN node /\ NodeRaises(node.right)
           [] OTHER -> FALSE

RECURSIVE generate_ast_node(_)

\* every dict has a "type" here, so the branch of line 110 is not met
generate_expression(expr) ==
    CASE expr.type = "number" -> <<NumberText(expr.number)>>
      [] expr.type = "str" -> IF expr.value = "" THEN <<>> ELSE <<expr.value>>
      [] OTHER -> generate_ast_node(expr)

\* str(p) of one of the params of an indicator
ParamText(param) == IF param.type = "str" THEN param.value ELSE Str(param)

generate_ast_node(node) ==
    CASE node.type = "series" -> <<Get(node, "value", "")>>
      [] node.type = "indicator" ->
           LET params == Get(node, "params", <<>>)
           IN  <<Get(node, "name", ""), "(">>
               \o JoinWords([k \in 1..Len(params) |-> <<ParamText(params[k])>>], <<",">>)
               \o <<")">>
      [] node.type = "function_call" ->
           LET args == Get(node, "args", <<>>)
           IN  <<Get(node, "name", ""), "(">>
               \o JoinWords([k \in 1..Len(args) |-> generate_expression(args[k])], <<",">>)
               \o <<")">>
      [] node.type = "binary_op" ->
           (IF "left" \in DOMAIN node THEN generate_ast_node(node.left)
            ELSE <<"{}">>)
           \o <<Get(node, "op", ">")>>
           \o (IF "right" \in DOMAIN node THEN generate_ast_node(node.right)
               ELSE <<"{}">>)
      [] OTHER -> <<Str(node)>>

RuleRaises(r) ==
    \/ "left" \in DOMAIN r /\ ExprRaises(r.left)
    \/ "right" \in DOMAIN r /\ ExprRaises(r.right)

generate_rule(r) ==
    LET left == generate_expression(Get(r, "left", Literal("")))
        op == Get(r, "operator", ">")
        right == generate_expression(Get(r, "right", Literal("")))
    IN  IF op \in {"crosses_above", "crosses_below"}
        THEN <<op, "(">> \o left \o <<",">> \o right \o <<")">>
        ELSE left \o <<op>> \o right

HasWord(words, w) == \E k \in 1..Len(words) : words[k] = w

\* the rule strings joined by " AND ", those with AND or OR in parentheses
generate_rule_list(rules) ==
    IF rules = <<>> THEN <<>>
    ELSE IF Len(rules) = 1 THEN generate_rule(rules[1])
    ELSE JoinWords([k \in 1..Len(rules) |->
                      LET str == generate_rule(rules[k])
                      IN  IF HasWord(str, "AND") \/ HasWord(str, "OR")
                          THEN <<"(">> \o str \o <<")">> ELSE str],
                   <<"AND">>)

GenerateRaises(structured_json) ==
    \E side \in {"entry", "exit"} :
        /\ HasRules(structured_json, side)
        /\ \E k \in 1..Len(structured_json[side]) : RuleRaises(structured_json[side][k])

\* DSLGenerator.generate: ENTRY: and its rules, then EXIT: and its rules
generate(structured_json) ==
    (IF HasRules(structured_json, "entry")
     THEN <<"ENTRY", ":">> \o generate_rule_list(structured_json["entry"])
     ELSE <<>>)
    \o (IF HasRules(structured_json, "exit")
        THEN <<"EXIT", ":">> \o generate_rule_list(structured_json["exit"])
        ELSE <<>>)


(* --------------- texts and strategies given to the pipeline ----------- *)
\* operands of a comparison: indicators whose argument is not a series
NestedOperands ==
    {<<"sma", "(", "sma", "(", "close", ",", "5", ")", ",", "20", ")">>,
     <<"rsi", "(", "yesterday", "(", "close", ")", ")">>,
     <<"sma", "(", "5", ",", "20", ")">>}

PipelineOperands ==
    {<<"close">>, <<"5">>, <<"1.5">>, <<"5", "%">>,
     <<"sma", "(", "close", ",", "5", ")">>,
     <<"rsi", "(", "close", ")">>,
     <<"yesterday", "(", "close", ")">>,
     <<"n_days_ago", "(", "close", ",", "2.0", ")">>,
     <<"(", "close", ")">>,
     <<"ema", "(", "(", "close", ")", ",", "5", ")">>}
    \cup NestedOperands

\* ENTRY: l o r; EXIT: l > close; ENTRY: l > close EXIT: close < 5
ComparisonTexts ==
    {SectionText("ENTRY", ComparisonText(l, o, r)) :
        l \in PipelineOperands, o \in Operators, r \in {<<"close">>, <<"5">>}}
    \cup UNION {{SectionText("EXIT", ComparisonText(l, ">", <<"close">>)),
                 SectionText("ENTRY", ComparisonText(l, ">", <<"close">>))
                   \o SectionText("EXIT", ComparisonText(<<"close">>, "<", <<"5">>))} :
                l \in PipelineOperands}

\* ENTRY: r1 b r2 and ENTRY: ( r1 b r2 ) over the rules A, B, C
RuleListTexts ==
    {SectionText("ENTRY", r1 \o <<b>> \o r2) :
        r1 \in RuleTexts, r2 \in RuleTexts, b \in BooleanWords}
    \cup {SectionText("ENTRY", <<"(">> \o r1 \o <<b>> \o r2 \o <<")">>) :
            r1 \in RuleTexts, r2 \in {RuleA}, b \in BooleanWords}

PipelineTexts == ComparisonTexts \cup RuleListTexts

\* conditions put in lists of one and two elements
ListConditions ==
    {AboveOne,
     BinaryOp("<", CloseSeries, Number(R(2))),
     BinaryOp(">", CloseSeries, FunctionCall("yesterday", <<CloseSeries>>)),
     BinaryOp("!=", FunctionCall("yesterday", <<CloseSeries>>), CloseSeries)}

ListStrategies ==
    {("entry" :> entry) @@ ("exit" :> exit) :
        entry \in UNION {[1..n -> ListConditions] : n \in 1..2},
        exit \in {<<>>, <<AboveOne>>,
                  <<AboveOne, BinaryOp("<", CloseSeries, Number(R(2)))>>}}

InitPipeline ==
    /\ df \in BarTables
    /\ \/ dsl_text \in PipelineTexts /\ ast = <<>>
       \/ dsl_text = <<>> /\ ast \in ListStrategies
    /\ cross_a = <<>> /\ cross_b = <<>>
    /\ initial_capital = 0
    /\ signals = [len |-> 0, col |-> <<>>]
    /\ entry_price_col = "close"
    /\ exit_price_col = "close"
    /\ pc = "call"
    /\ i = 0
    /\ position = None
    /\ trades = <<>>
    /\ opens = 0
    /\ result = None
    /\ error = ""

\* a caller runs DSLGenerator().generate(ast) on the AST parse returned
generate_call ==
    /\ pc = "parsed"
    /\ IF GenerateRaises(ast)
       THEN /\ pc' = "error"
            /\ error' = "AttributeError"
            /\ result' = result
       ELSE /\ pc' = "generated"
            /\ error' = error
            /\ result' = <<generate(ast)>>
    /\ UNCHANGED <<run_vars, dsl_vars>>

\* and parses the generated text again
reparse_call ==
    /\ pc = "generated"
    /\ result' = <<result[1], parse(result[1])>>
    /\ pc' = "reparsed"
    /\ UNCHANGED <<run_vars, dsl_vars, error>>

NextPipeline ==
    parse_call \/ generate_call \/ reparse_call \/ evaluate_strategy_call

SpecPipeline == InitPipeline /\ [][NextPipeline]_vars


(* ------------------------ claims about the pipeline ------------------- *)
(* C24: for every AST that parse produces, DSLGenerator.generate renders a
   text, parsing that text succeeds, and the AST it yields is equal to the
   first one (which already holds the default periods). *)
C24_RoundTrip ==
    /\ pc = "reparsed" => result[2].ok /\ result[2].ast = ast
    /\ error # "AttributeError"


\* the AST was returned by parse
Parsed == dsl_text # <<>> /\ ast # <<>>

\* the series of condition j of a side
Condition(side, j) == evaluate_expression(ast[side][j], df)

(* C29: parse returns each section of the text as a list that holds exactly
   one rule node (a comparison or a boolean_op chain), and no list for a
   section the text does not have; evaluate_strategy combines the elements
   of a list with an elementwise AND, so a list of one element gives exactly
   the series of that condition. *)
C29_OneRulePerSide ==
    /\ Parsed
         => /\ "entry" \in DOMAIN ast <=> HasWord(dsl_text, "ENTRY")
            /\ "exit" \in DOMAIN ast <=> HasWord(dsl_text, "EXIT")
            /\ \A side \in DOMAIN ast :
                  /\ Len(ast[side]) = 1
                  /\ ast[side][1].type \in {"binary_op", "boolean_op"}
    /\ pc = "evaluated"
         => \A side \in DOMAIN ast :
              ast[side] # <<>>
                => /\ \A k \in 1..Len(df) :
                        signals.col[side][k]
                          <=> \A j \in 1..Len(ast[side]) : Condition(side, j)[k]
                   /\ Len(ast[side]) = 1 => signals.col[side] = Condition(side, 1)

\* a text with both sections, parsed and evaluated: each side is a list of
\* one node, and each signal is that node's series, true on some rows only
C29_Witness ==
    /\ pc = "evaluated" /\ Parsed /\ Len(df) >= 2
    /\ DOMAIN ast = {"entry", "exit"}
    /\ Len(ast["entry"]) = 1 /\ Len(ast["exit"]) = 1
    /\ ast["entry"][1].left.type = "indicator"
    /\ \E k \in 1..Len(df) : signals.col["entry"][k]
    /\ \E k \in 1..Len(df) : ~signals.col["entry"][k]

\* the text compares an indicator whose argument is not a series
NestedText ==
    \E l \in NestedOperands :
        Len(dsl_text) >= 2 + Len(l) /\ SubSeq(dsl_text, 3, 2 + Len(l)) = l

\* the indicator node of such a text
NestedNode == ast[CHOOSE side \in DOMAIN ast : TRUE][1].left

(* C30: a text in which the first argument of an indicator is not a bare
   series (sma(sma(close, 5), 20), rsi(yesterday(close))) is accepted by
   parse, which yields an indicator node whose series is the string of the
   nested node, not the name of a column; evaluating the strategy then
   always fails, with the ValueError of an unknown column, and gives no
   signal table. *)
C30_NestedIndicator ==
    NestedText
      => /\ pc = "error" => ast # <<>>
         /\ ast # <<>>
              => /\ NestedNode.type = "indicator"
                 /\ NestedNode.series \notin SeriesNames
                 /\ NestedNode.series
                      \in {"{'type': 'indicator', ...}",
                           "{'type': 'function_call', ...}", "5"}
         /\ pc # "evaluated"
         /\ NoTable
         /\ error \in {"", "ValueError", "AttributeError"}

\* ENTRY: sma(sma(close, 5), 20) > close was parsed, and its evaluation
\* failed
C30_Witness ==
    /\ pc = "error" /\ error = "ValueError" /\ ast # <<>> /\ Len(df) >= 2
    /\ Len(dsl_text) >= 13
    /\ SubSeq(dsl_text, 1, 13)
         = <<"ENTRY", ":", "sma", "(", "sma", "(", "close", ",", "5", ")",
             ",", "20", ")">>

====
